---------------------------- MODULE Spec2Model ----------------------------
(***************************************************************************)
(* Zettelkasten note processor: the parse-and-render pipeline.             *)
(*                                                                         *)
(* The repository holds the pipeline in several copies.  Two of them       *)
(* differ in behaviour and are both modelled:                              *)
(*   "core"    src/src/core/{parser,processor,__init__}.py  (and the       *)
(*             line-for-line equal src/noter.py), Markdown only;           *)
(*   "extras"  src/note_parser-extras/noter-extr.py, two modes and a       *)
(*             registry of four formatters.                                *)
(*                                                                         *)
(* Text is a sequence of tokens.  A token is one character, except:        *)
(*   FENCE   the three backquotes of a Markdown code fence;                *)
(*   XMLDOC  the serialisation of one well-formed XML document (the        *)
(*           element tree held in the variable doc);                       *)
(*   JUNK    a piece of text that is not well-formed XML;                  *)
(*   NOMENT  the sentinel [NO_MENTIONS];                                   *)
(*   "md", "txt", "yaml", "json"  the extension words of file names.       *)
(***************************************************************************)
EXTENDS Integers, Sequences, FiniteSets, TLC

VARIABLES
    impl,        \* which copy of the pipeline runs: "core" or "extras"
    raw,         \* the raw input text handed to the program
    doc,         \* the element tree that the token XMLDOC of raw stands for
    parser,      \* the ZettelkastenParser object (xml_content, root, notes, ...)
    proc,        \* the ZettelkastenProcessor object (notes / data, mode)
    fs,          \* the filesystem: path -> content of the files that exist
    dirs,        \* the directories that exist
    config,      \* zettelkasten_config.json: no file, or the saved values
    ret,         \* outcome of the last call: what it returned or raised
    log,         \* observable effects of the last call, in order
    pc,          \* position of the scenario
    dispatcher,  \* the EventDispatcher: _listeners, and the dispatch under way
    writers      \* the concurrent save_individual calls, each at its own step

vars == <<impl, raw, doc, parser, proc, fs, dirs, config, ret, log, pc, dispatcher, writers>>

-----------------------------------------------------------------------------
(* Bounds of the model.                                                    *)

MaxTextLen == 4      \* longest raw text fed to the sanitizer
MaxNodes == 4        \* most elements of an input document

-----------------------------------------------------------------------------
(* Strings: the str methods the code uses.                                 *)

FENCE == "FENCE"
XMLDOC == "XMLDOC"
JUNK == "JUNK"
NOMENT == "NOMENT"
NL == "\n"

\* str.isspace of one character (Python's \s and str.strip agree on these).
IsSpace(c) == c \in {" ", NL}

\* All texts over an alphabet, of length at most n.
TextsUpTo(alphabet, n) == UNION {[1..k -> alphabet] : k \in 0..n}

RECURSIVE lstrip(_)
lstrip(s) ==
    IF s = <<>> THEN <<>>
    ELSE IF IsSpace(Head(s)) THEN lstrip(Tail(s)) ELSE s

RECURSIVE rstrip(_)
rstrip(s) ==
    IF s = <<>> THEN <<>>
    ELSE IF IsSpace(s[Len(s)]) THEN rstrip(SubSeq(s, 1, Len(s) - 1)) ELSE s

\* str.strip()
strip(s) == rstrip(lstrip(s))

\* Number of occurrences of token c in s.
RECURSIVE Count(_, _)
Count(c, s) ==
    IF s = <<>> THEN 0
    ELSE (IF Head(s) = c THEN 1 ELSE 0) + Count(c, Tail(s))

\* Length of the run of whitespace of s that starts at position p.
RECURSIVE SpaceRun(_, _)
SpaceRun(s, p) ==
    IF p > Len(s) \/ ~IsSpace(s[p]) THEN 0 ELSE 1 + SpaceRun(s, p + 1)

-----------------------------------------------------------------------------
(* Sanitizer: ZettelkastenParser._clean_xml, two re.sub calls and a strip. *)

\* '^' under re.MULTILINE: the start of the text or just after a newline.
AtLineStart(s, p) == p = 1 \/ s[p - 1] = NL

\* '$' under re.MULTILINE: the end of the text or just before a newline.
AtLineEnd(s, p) == p > Len(s) \/ s[p] = NL

\* Length of the match of  ^```xml?\s*\n?  at position p, 0 when there is
\* none.  "xml?" is x, m and an optional l; \s* is greedy and also eats the
\* newlines, so the final \n? never has anything left to match.
FenceOpenMatch(s, p) ==
    IF /\ AtLineStart(s, p)
       /\ p + 2 <= Len(s)
       /\ s[p] = FENCE /\ s[p + 1] = "x" /\ s[p + 2] = "m"
    THEN LET q == IF p + 3 <= Len(s) /\ s[p + 3] = "l" THEN p + 4 ELSE p + 3
         IN  (q - p) + SpaceRun(s, q)
    ELSE 0

\* The whitespace \s*$ consumes from position q: the longest prefix of the
\* run of whitespace that ends at a line end; -1 when no prefix does.
FenceTail(s, q) ==
    LET r == SpaceRun(s, q)
        ks == {k \in 0..r : AtLineEnd(s, q + k)}
    IN  IF ks = {} THEN -1 ELSE CHOOSE k \in ks : \A j \in ks : j <= k

\* Length of the match of  \n?```\s*$  at position p, 0 when there is none.
FenceCloseMatch(s, p) ==
    IF p + 1 <= Len(s) /\ s[p] = NL /\ s[p + 1] = FENCE /\ FenceTail(s, p + 2) >= 0
    THEN 2 + FenceTail(s, p + 2)
    ELSE IF p <= Len(s) /\ s[p] = FENCE /\ FenceTail(s, p + 1) >= 0
    THEN 1 + FenceTail(s, p + 1)
    ELSE 0

\* re.sub(r'^```xml?\s*\n?', '', s, flags=re.MULTILINE): every match, left
\* to right, is deleted (re.sub has no count here).
RECURSIVE SubFenceOpen(_, _)
SubFenceOpen(s, p) ==
    IF p > Len(s) THEN <<>>
    ELSE LET n == FenceOpenMatch(s, p)
         IN  IF n > 0 THEN SubFenceOpen(s, p + n)
             ELSE <<s[p]>> \o SubFenceOpen(s, p + 1)

\* re.sub(r'\n?```\s*$', '', s, flags=re.MULTILINE)
RECURSIVE SubFenceClose(_, _)
SubFenceClose(s, p) ==
    IF p > Len(s) THEN <<>>
    ELSE LET n == FenceCloseMatch(s, p)
         IN  IF n > 0 THEN SubFenceClose(s, p + n)
             ELSE <<s[p]>> \o SubFenceClose(s, p + 1)

_clean_xml(xml_content) ==
    strip(SubFenceClose(SubFenceOpen(xml_content, 1), 1))

-----------------------------------------------------------------------------
(* Element trees (xml.etree.ElementTree).  A document is the sequence of   *)
(* its elements in document order; each element carries its tag, its depth *)
(* (the root has depth 0) and its text.  An element reference is an index  *)
(* into the document; 0 is None.  An Optional value is a sequence of at    *)
(* most one element: <<>> is None.                                         *)

\* type is the value of the element's "type" attribute, <<>> when it has none.
Elem(tag, depth, text, type) ==
    [tag |-> tag, depth |-> depth, text |-> text, type |-> type]

\* Last index of the subtree of element i: it ends before the next element
\* that is not deeper than i.
SubtreeEnd(d, i) ==
    LET S == {j \in (i + 1)..Len(d) : d[j].depth <= d[i].depth}
    IN  IF S = {} THEN Len(d) ELSE (CHOOSE j \in S : \A k \in S : j <= k) - 1

Descendants(d, i) == (i + 1)..SubtreeEnd(d, i)

Children(d, i) == {j \in Descendants(d, i) : d[j].depth = d[i].depth + 1}

Min(S) == CHOOSE x \in S : \A y \in S : x <= y

\* The members of a set of indices as a sequence, in increasing order.
InOrder(S) ==
    [k \in 1..Cardinality(S) |->
        CHOOSE x \in S : Cardinality({y \in S : y < x}) = k - 1]

\* Element.find(tag): the first direct child with that tag, or None.
find(d, i, tag) ==
    LET S == {j \in Children(d, i) : d[j].tag = tag}
    IN  IF S = {} THEN 0 ELSE Min(S)

\* Element.find(".//tag"): the first descendant with that tag, in document
\* order, or None.  The element itself is not a candidate.
findDescendant(d, i, tag) ==
    LET S == {j \in Descendants(d, i) : d[j].tag = tag}
    IN  IF S = {} THEN 0 ELSE Min(S)

\* findall as if the path were ".//tag": every descendant with that tag.
findall_deep(d, i, tag) == InOrder({j \in Descendants(d, i) : d[j].tag = tag})

\* Element.findall(tag): the direct children with that tag, in document order.
findall(d, i, tag) == InOrder({j \in Children(d, i) : d[j].tag = tag})

\* ET.fromstring: the text must be exactly one document.  The root of the
\* document doc is element 1.
ET_fromstring(text) ==
    IF text = <<XMLDOC>> THEN [ok |-> TRUE, root |-> 1]
    ELSE [ok |-> FALSE, root |-> 0]

-----------------------------------------------------------------------------
(* FieldDecoders: the _get_text and _parse_* methods of ZettelkastenParser *)
(* (the same text in parser.py, noter.py and noter-extr.py).               *)

\* None, for the Optional[str] fields of a Note.
None == <<"<None>">>

_get_text(d, parent, tag) ==
    IF parent = 0 THEN <<>>
    ELSE LET elem == find(d, parent, tag)
         IN  IF elem = 0 THEN <<>> ELSE strip(d[elem].text)

\* str.split(sep) for a one-character separator.
RECURSIVE split(_, _)
split(s, sep) ==
    IF \A i \in 1..Len(s) : s[i] # sep THEN <<s>>
    ELSE LET p == Min({i \in 1..Len(s) : s[i] = sep})
         IN  <<SubSeq(s, 1, p - 1)>> \o split(SubSeq(s, p + 1, Len(s)), sep)

_parse_pipe_list(text) ==
    IF text = <<>> \/ text = <<NOMENT>> THEN <<>>
    ELSE LET items == split(text, "|")
             kept == SelectSeq(items, LAMBDA item : strip(item) # <<>>)
         IN  [i \in 1..Len(kept) |-> strip(kept[i])]

RECURSIVE MentionItems(_)
MentionItems(items) ==
    IF items = <<>> THEN <<>>
    ELSE LET item == strip(Head(items))
         IN  (IF item # <<>> /\ Head(item) = "@" THEN <<item>>
              ELSE IF item # <<>> THEN <<<<"@">> \o item>>
              ELSE <<>>) \o MentionItems(Tail(items))

\* A mentions decoder that would leave the pieces as they are.
_parse_mentions_unmarked(text) == _parse_pipe_list(text)

_parse_mentions(text) ==
    IF text = <<>> \/ text = <<NOMENT>> THEN <<>>
    ELSE MentionItems(split(text, "|"))

\* Length of the run of characters other than "]" that starts at position p.
RECURSIVE NonCloseRun(_, _)
NonCloseRun(s, p) ==
    IF p > Len(s) \/ s[p] = "]" THEN 0 ELSE 1 + NonCloseRun(s, p + 1)

\* re.findall(r'\[\[([^\]]+)\]\]', text) from position p; each match is
\* stripped as it is appended.
RECURSIVE ConnectionMatches(_, _)
ConnectionMatches(s, p) ==
    IF p > Len(s) THEN <<>>
    ELSE LET n == NonCloseRun(s, p + 2)
         IN  IF /\ p + 1 <= Len(s) /\ s[p] = "[" /\ s[p + 1] = "["
                /\ n >= 1
                /\ p + 3 + n <= Len(s)
                /\ s[p + 2 + n] = "]" /\ s[p + 3 + n] = "]"
             THEN <<strip(SubSeq(s, p + 2, p + 1 + n))>>
                      \o ConnectionMatches(s, p + 4 + n)
             ELSE ConnectionMatches(s, p + 1)

_parse_connections(text) ==
    IF text = <<>> THEN <<>> ELSE ConnectionMatches(text, 1)

\* Does old occur in s at position p?
OccursAt(s, old, p) ==
    p + Len(old) - 1 <= Len(s) /\ SubSeq(s, p, p + Len(old) - 1) = old

\* str.replace(old, new): every non-overlapping occurrence, left to right.
RECURSIVE replace(_, _, _, _)
replace(s, old, new, p) ==
    IF p > Len(s) THEN <<>>
    ELSE IF OccursAt(s, old, p) THEN new \o replace(s, old, new, p + Len(old))
    ELSE <<s[p]>> \o replace(s, old, new, p + 1)

BREAK == <<"[", "B", "R", "E", "A", "K", "]">>
BULLET == <<"[", "B", "U", "L", "L", "E", "T", "]">>
BulletMark == <<NL, "*", " ">>    \* "\n" + the bullet character + " "

\* A content decoder that would know the bullet token only with its space.
_parse_content_spaced(text) ==
    IF text = <<>> THEN <<>>
    ELSE strip(replace(replace(text, BREAK, <<NL, NL>>, 1),
                       BULLET \o <<" ">>, BulletMark, 1))

\* A content decoder that would take every space after a bullet token.
_parse_content_greedy(text) ==
    IF text = <<>> THEN <<>>
    ELSE LET t1 == replace(text, BREAK, <<NL, NL>>, 1)
             t2 == replace(t1, BULLET \o <<" ", " ">>, BulletMark, 1)
             t3 == replace(t2, BULLET \o <<" ">>, BulletMark, 1)
         IN  strip(replace(t3, BULLET, BulletMark, 1))

\* ZettelkastenParser._parse_content
_parse_content(text) ==
    IF text = <<>> THEN <<>>
    ELSE LET t1 == replace(text, BREAK, <<NL, NL>>, 1)
             t2 == replace(t1, BULLET \o <<" ">>, BulletMark, 1)
             t3 == replace(t2, BULLET, BulletMark, 1)
         IN  strip(t3)

-----------------------------------------------------------------------------
(* ModelBuilder: the records and ZettelkastenParser._parse_notes,          *)
(* _parse_gap_analysis and parse.                                          *)

\* The decimal digits of n, most significant first.
RECURSIVE Digits(_)
Digits(n) ==
    IF n < 10 THEN <<ToString(n)>> ELSE Digits(n \div 10) \o <<ToString(n % 10)>>

\* format(n, "03d"): zero-padded to width 3, longer numbers are not cut.
RECURSIVE ZeroPad(_, _)
ZeroPad(ds, width) == IF Len(ds) >= width THEN ds ELSE ZeroPad(<<"0">> \o ds, width)

\* f"note_{idx:03d}"
NoteId(idx) == <<"note_">> \o ZeroPad(Digits(idx), 3)

\* datetime.now().isoformat(), read once per parse.
Timestamp == <<"now">>

\* Note(...) as _parse_notes builds it from one <note> element; author,
\* reference and chapter keep their default None.
NoteOf(d, note_elem, idx) ==
    [id              |-> NoteId(idx),
     created_at      |-> Timestamp,
     title           |-> _get_text(d, note_elem, "title"),
     tags            |-> _parse_pipe_list(_get_text(d, note_elem, "tags")),
     mentions        |-> _parse_mentions(_get_text(d, note_elem, "mentions")),
     connections     |-> _parse_connections(_get_text(d, note_elem, "connections")),
     principle       |-> _get_text(d, note_elem, "principle"),
     content         |-> _parse_content(_get_text(d, note_elem, "content")),
     evidence        |-> _get_text(d, note_elem, "evidence"),
     why_it_matters  |-> _get_text(d, note_elem, "why_it_matters"),
     recall_question |-> _get_text(d, note_elem, "recall_question"),
     author          |-> None,
     reference       |-> None,
     chapter         |-> None]

\* enumerate(self.root.findall("note"), start=1)
_parse_notes(d, root) ==
    LET elems == findall(d, root, "note")
    IN  [idx \in 1..Len(elems) |-> NoteOf(d, elems[idx], idx)]

NONE_IDENTIFIED == "NONE_IDENTIFIED"    \* the sentinel [NONE_IDENTIFIED], one token

GapOf(d, gap_elem) ==
    [gap_type             |-> IF d[gap_elem].type = <<>> THEN <<"Unknown">>
                              ELSE d[gap_elem].type[1],
     missing_element      |-> _get_text(d, gap_elem, "missing_element"),
     why_it_matters       |-> _get_text(d, gap_elem, "why_it_matters"),
     source_location      |-> _get_text(d, gap_elem, "source_location"),
     suggested_note_title |-> _get_text(d, gap_elem, "suggested_note_title")]

_parse_gap_analysis(d, root) ==
    LET coverage_elem == find(d, root, "coverage_assessment")
        critical_gaps_elem == find(d, root, "critical_gaps")
        gaps_text == IF critical_gaps_elem = 0 THEN <<>> ELSE d[critical_gaps_elem].text
        gap_elems == IF critical_gaps_elem # 0 /\ gaps_text # <<>>
                        /\ Count(NONE_IDENTIFIED, gaps_text) = 0
                     THEN findall(d, critical_gaps_elem, "gap")
                     ELSE <<>>
    IN  [coverage |->
            [pillars_captured       |-> _get_text(d, coverage_elem, "pillars_captured"),
             causal_chains_captured |-> _get_text(d, coverage_elem, "causal_chains_captured"),
             meta_argument_captured |-> _get_text(d, coverage_elem, "meta_argument_captured"),
             overall_signal_capture |-> _get_text(d, coverage_elem, "overall_signal_capture")],
         gaps           |-> [i \in 1..Len(gap_elems) |-> GapOf(d, gap_elems[i])],
         verdict        |-> _get_text(d, root, "verdict"),
         recommendation |-> _get_text(d, root, "recommendation")]

\* What a call returned or raised: msg is the text of the exception, paths
\* the paths a save returned; path, format and dir are the arguments of the
\* call and before is the filesystem as the call found it.
NoFiles == [path \in {} |-> <<>>]
NoPath == [parent |-> "", name |-> <<>>]
Returned(op) ==
    [op |-> op, status |-> "ok", msg |-> <<>>, paths |-> <<>>,
     path |-> NoPath, format |-> "", dir |-> "", before |-> NoFiles]
Raised(op, msg) == [Returned(op) EXCEPT !.status = "ValueError", !.msg = msg]

\* ZettelkastenParser.__init__
NewParser(xml_content) ==
    [xml_content  |-> _clean_xml(xml_content),
     root         |-> 0,
     notes        |-> <<>>,
     gap_analysis |-> <<>>,
     mode         |-> "unknown"]

\* ZettelkastenParser.parse of the core copy: a notes element or nothing.
\* The result is the parser after the call and what the call returned.
parse_core(d, p) ==
    LET t == ET_fromstring(p.xml_content)
        notes_elem == IF d[t.root].tag = "notes" THEN t.root
                      ELSE findDescendant(d, t.root, "notes")
    IN  IF ~t.ok
        THEN [parser |-> p, ret |-> Raised("parse", <<"Invalid XML: ", "ParseError">>)]
        ELSE IF notes_elem = 0
        THEN [parser |-> [p EXCEPT !.root = t.root],
              ret    |-> Raised("parse", <<"No <notes> element found in XML">>)]
        ELSE [parser |-> [p EXCEPT !.root = notes_elem,
                                   !.notes = _parse_notes(d, notes_elem)],
              ret    |-> Returned("parse")]

\* ZettelkastenParser.parse of the extras copy: two modes.
parse_extras(d, p) ==
    LET t == ET_fromstring(p.xml_content)
        notes_elem == findDescendant(d, t.root, "notes")
        gap_elem == findDescendant(d, t.root, "gap_analysis")
    IN  IF ~t.ok
        THEN [parser |-> p, ret |-> Raised("parse", <<"Invalid XML: ", "ParseError">>)]
        ELSE IF d[t.root].tag = "notes"
        THEN [parser |-> [p EXCEPT !.root = t.root, !.mode = "notes",
                                   !.notes = _parse_notes(d, t.root)],
              ret    |-> Returned("parse")]
        ELSE IF d[t.root].tag = "gap_analysis"
        THEN [parser |-> [p EXCEPT !.root = t.root, !.mode = "gap_analysis",
                                   !.gap_analysis = <<_parse_gap_analysis(d, t.root)>>],
              ret    |-> Returned("parse")]
        ELSE IF notes_elem # 0
        THEN [parser |-> [p EXCEPT !.root = notes_elem, !.mode = "notes",
                                   !.notes = _parse_notes(d, notes_elem)],
              ret    |-> Returned("parse")]
        ELSE IF gap_elem # 0
        THEN [parser |-> [p EXCEPT !.root = gap_elem, !.mode = "gap_analysis",
                                   !.gap_analysis = <<_parse_gap_analysis(d, gap_elem)>>],
              ret    |-> Returned("parse")]
        ELSE [parser |-> [p EXCEPT !.root = t.root],
              ret    |-> Raised("parse", <<"Unknown root element: ", d[t.root].tag>>)]

-----------------------------------------------------------------------------
(* ZettelkastenProcessor: construction and parse.                          *)

Impls == {"core", "extras"}

\* self.data of the extras copy: None, a list of notes or a GapAnalysis.
DataNone == [type |-> "None", notes |-> <<>>, gap |-> <<>>]
DataNotes(ns) == [type |-> "list", notes |-> ns, gap |-> <<>>]
DataGap(g) == [type |-> "GapAnalysis", notes |-> <<>>, gap |-> g]

\* ZettelkastenProcessor.__init__: the core copy starts with notes = [],
\* the extras copy with data = None and mode = None.
NewProcessor == [notes |-> <<>>, data |-> DataNone, mode |-> "None"]

\* The objects before they are constructed.
NoParser == [xml_content |-> <<>>, root |-> 0, notes |-> <<>>,
             gap_analysis |-> <<>>, mode |-> "unknown"]
NoCall == [Returned("") EXCEPT !.status = ""]

\* processor = ZettelkastenProcessor(xml_content)
Construct ==
    /\ pc = "start"
    /\ parser' = NewParser(raw)
    /\ proc' = NewProcessor
    /\ pc' = "constructed"
    /\ UNCHANGED <<dispatcher, writers, impl, raw, doc, fs, dirs, config, ret, log>>

\* ZettelkastenProcessor.parse of the core copy:
\*     self.notes = self.parser.parse()
ParseCore ==
    /\ impl = "core"
    /\ pc = "constructed"
    /\ LET r == parse_core(doc, parser)
       IN  /\ parser' = r.parser
           /\ ret' = r.ret
           /\ proc' = IF r.ret.status = "ok"
                      THEN [proc EXCEPT !.notes = r.parser.notes]
                      ELSE proc
           /\ pc' = IF r.ret.status = "ok" THEN "parsed" ELSE "failed"
    /\ log' = <<"ET.fromstring">>
    /\ UNCHANGED <<dispatcher, writers, impl, raw, doc, fs, dirs, config>>

\* ZettelkastenProcessor.parse of the extras copy:
\*     self.data = self.parser.parse(); self.mode = self.parser.mode
ParseExtras ==
    /\ impl = "extras"
    /\ pc = "constructed"
    /\ LET r == parse_extras(doc, parser)
       IN  /\ parser' = r.parser
           /\ ret' = r.ret
           /\ proc' = IF r.ret.status # "ok" THEN proc
                      ELSE IF r.parser.mode = "notes"
                      THEN [proc EXCEPT !.data = DataNotes(r.parser.notes),
                                        !.mode = "notes"]
                      ELSE [proc EXCEPT !.data = DataGap(r.parser.gap_analysis),
                                        !.mode = "gap_analysis"]
           /\ pc' = IF r.ret.status = "ok" THEN "parsed" ELSE "failed"
    /\ log' = <<"ET.fromstring">>
    /\ UNCHANGED <<dispatcher, writers, impl, raw, doc, fs, dirs, config>>

Parse == ParseCore \/ ParseExtras

-----------------------------------------------------------------------------
(* pathlib.  A path is its parent directory and its name, a text in which  *)
(* "." is a token of its own.                                              *)

Path(parent, name) == [parent |-> parent, name |-> name]

\* The position of the "." that starts the suffix of a name, 0 when the name
\* has no suffix: the last ".", unless it is the first or the last character.
SuffixStart(name) ==
    LET S == {i \in 1..Len(name) : name[i] = "."}
        i == CHOOSE k \in S : \A j \in S : j <= k
    IN  IF S = {} THEN 0
        ELSE IF 1 < i /\ i < Len(name) THEN i ELSE 0

\* PurePath.suffix and PurePath.stem
suffix(name) ==
    IF SuffixStart(name) = 0 THEN <<>> ELSE SubSeq(name, SuffixStart(name), Len(name))
stem(name) ==
    IF SuffixStart(name) = 0 THEN name ELSE SubSeq(name, 1, SuffixStart(name) - 1)

\* A with_suffix that would append the extension to the whole name.
with_suffix_appended(name, ext) == name \o ext

\* PurePath.with_suffix on a path with a name; it raises on an empty name.
with_suffix(name, ext) ==
    IF suffix(name) = <<>> THEN name \o ext
    ELSE SubSeq(name, 1, Len(name) - Len(suffix(name))) \o ext

\* An exists() that would never see a file.
exists_never(files, path) == FALSE

\* Path.exists()
exists(files, path) == path \in DOMAIN files

\* Path.write_text(content): the file is created or replaced.
write_text(files, path, content) ==
    [q \in DOMAIN files \cup {path} |-> IF q = path THEN content ELSE files[q]]

-----------------------------------------------------------------------------
(* File names of the split save: Note.get_filename, and                    *)
(* MarkdownFormatter._slugify, which shares its rules.                     *)

\* "I_DOT" is U+0130, the capital I with a dot above, a letter; "DOT_ABOVE" is
\* U+0307, the combining dot, which is no word character.
Letters == {"a", "b", "A", "B", "H", "W", "h", "w", "e", "l", "o", "r", "d", "i", "I_DOT"}
DigitChars == {"0", "1", "2", "3", "4", "5", "6", "7", "8", "9"}

\* \w of the re module
IsWordChar(c) == c \in Letters \cup DigitChars \cup {"_"}

\* str.lower() of one character
LowerChar(c) ==
    IF c = "A" THEN "a" ELSE IF c = "B" THEN "b"
    ELSE IF c = "H" THEN "h" ELSE IF c = "W" THEN "w" ELSE c
\* str.lower(): character by character, U+0130 giving the two characters
\* "i" and U+0307.
LowerStart(s, i) == i + Cardinality({k \in 1..(i - 1) : s[k] = "I_DOT"})
lower(s) ==
    IF \A k \in 1..Len(s) : s[k] # "I_DOT" THEN [i \in 1..Len(s) |-> LowerChar(s[i])]
    ELSE [j \in 1..(LowerStart(s, Len(s) + 1) - 1) |->
             LET i == CHOOSE k \in 1..Len(s) :
                          LowerStart(s, k) <= j /\ j < LowerStart(s, k + 1)
             IN  IF s[i] # "I_DOT" THEN LowerChar(s[i])
                 ELSE IF j = LowerStart(s, i) THEN "i" ELSE "DOT_ABOVE"]

\* re.sub(r'[^\w\s-]', '', s)
StripSpecial(s) == SelectSeq(s, LAMBDA c : IsWordChar(c) \/ IsSpace(c) \/ c = "-")

\* re.sub(r'[\s_]+', '-', s): each run of whitespace and underscores
\* becomes one hyphen.
Hyphenate(s) ==
    LET run(i) == IsSpace(s[i]) \/ s[i] = "_"
        kept == InOrder({i \in 1..Len(s) : ~run(i) \/ i = 1 \/ ~run(i - 1)})
    IN  [k \in 1..Len(kept) |-> IF run(kept[k]) THEN "-" ELSE s[kept[k]]]

\* str.strip('-')
StripHyphens(s) ==
    LET S == {i \in 1..Len(s) : s[i] # "-"}
    IN  IF S = {} THEN <<>>
        ELSE SubSeq(s, Min(S), CHOOSE i \in S : \A j \in S : j <= i)

FilenameLimit == 80      \* safe[:80]
MdExt == <<".", "md">>

\* The name before the extension, as get_filename derives it.
SafeName(title) ==
    LET safe == lower(Hyphenate(StripSpecial(title)))
        cut == SubSeq(safe, 1, IF Len(safe) < FilenameLimit THEN Len(safe)
                                ELSE FilenameLimit)
    IN  StripHyphens(cut)

\* Note.get_filename(suffix=".md")
get_filename(note) == SafeName(note.title) \o MdExt

\* A slug whose ends would be left as they come.
_slugify_unstripped(text) == Hyphenate(StripSpecial(lower(text)))

\* MarkdownFormatter._slugify
_slugify(text) == StripHyphens(Hyphenate(StripSpecial(lower(text))))

-----------------------------------------------------------------------------
(* FormatterRegistry.  No claim speaks of the markup itself, so a rendered *)
(* text is kept as what it renders: the formatter, the method, the records *)
(* it was given and the anchors of its table of contents.                  *)

Rendered(formatter, method, notes, gap) ==
    [formatter |-> formatter, method |-> method, notes |-> notes, gap |-> gap,
     \* the anchors of the table of contents of MarkdownFormatter.format_notes
     anchors |-> IF formatter = "MarkdownFormatter" /\ method = "format_notes"
                 THEN [i \in 1..Len(notes) |-> _slugify(notes[i].title)]
                 ELSE <<>>]

\* A file some other program left in the directory.
Foreign == Rendered("foreign", "", <<>>, <<>>)

\* ZettelkastenProcessor.FORMATTERS of the extras copy
FORMATTERS ==
    [yaml |-> "YAMLFormatter", markdown |-> "MarkdownFormatter",
     md |-> "MarkdownFormatter", text |-> "PlainTextFormatter",
     txt |-> "PlainTextFormatter", json |-> "JSONFormatter"]

\* ZettelkastenProcessor.FILE_EXTENSIONS of the extras copy
FILE_EXTENSIONS ==
    [yaml |-> <<".", "yaml">>, markdown |-> <<".", "md">>, md |-> <<".", "md">>,
     text |-> <<".", "txt">>, txt |-> <<".", "txt">>, json |-> <<".", "json">>]

\* str.lower() of a format name
LowerName(format_type) ==
    IF format_type = "MD" THEN "md"
    ELSE IF format_type = "Json" THEN "json"
    ELSE format_type

\* MarkdownFormatter.format_notes and _format_single_note(note, False)
format_notes_md(notes) == Rendered("MarkdownFormatter", "format_notes", notes, <<>>)
format_single(note) ==
    Rendered("MarkdownFormatter", "_format_single_note", <<note>>, <<>>)

\* What a format call gives: the text, or the exception it raises.
Text(content) == [ok |-> TRUE, content |-> content, msg |-> <<>>]
Failure(msg) == [ok |-> FALSE, content |-> Foreign, msg |-> msg]

\* ZettelkastenProcessor.format() of the core copy
format_core(p) ==
    IF p.notes = <<>> THEN Failure(<<"No notes parsed. Call parse() first.">>)
    ELSE Text(format_notes_md(p.notes))

\* ZettelkastenProcessor.format(format_type) of the extras copy
format_extras(p, format_type) ==
    LET ft == LowerName(format_type)
    IN  IF p.data.type = "None"
        THEN Failure(<<"No data parsed. Call parse() first.">>)
        ELSE IF ft \notin DOMAIN FORMATTERS
        THEN Failure(<<"Unknown format: ", ft>>)
        ELSE IF p.mode = "notes"
        THEN Text(Rendered(FORMATTERS[ft], "format_notes", p.data.notes, <<>>))
        ELSE IF p.mode = "gap_analysis"
        THEN Text(Rendered(FORMATTERS[ft], "format_gap_analysis", <<>>, p.data.gap))
        ELSE Failure(<<"Unknown mode: ", p.mode>>)

-----------------------------------------------------------------------------
(* ZettelkastenProcessor: format and the saves.  log holds the effects of  *)
(* the last call, in order: "ET.fromstring", "format" (a formatter ran),   *)
(* "mkdir", "write".                                                       *)

Constructed == pc \in {"constructed", "parsed", "failed"}

\* A format or save that would let go of the model once it is rendered.
after_formatting_released(p) == [p EXCEPT !.notes = <<>>, !.data = DataNone, !.mode = "None"]

\* The processor after format, format_single, save, save_individual or
\* save_all: the formatters read the notes (or the gap analysis) they are
\* given and build new strings, asdict copies, and no statement of these
\* methods assigns to a note, to the data or to the mode.
after_formatting(p) == p

\* processor.format() of the core copy
FormatCore ==
    /\ impl = "core"
    /\ Constructed
    /\ LET r == format_core(proc)
       IN  /\ ret' = IF r.ok THEN Returned("format") ELSE Raised("format", r.msg)
           /\ log' = IF r.ok THEN <<"format">> ELSE <<>>
    /\ proc' = after_formatting(proc)
    /\ UNCHANGED <<dispatcher, writers, impl, raw, doc, parser, fs, dirs, config, pc>>

\* processor.format_single(note) of the core copy, on the k-th note
FormatSingle(k) ==
    /\ impl = "core"
    /\ Constructed
    /\ k \in 1..Len(proc.notes)
    /\ ret' = [Returned("format_single") EXCEPT !.paths = <<>>]
    /\ log' = <<"format">>
    /\ proc' = after_formatting(proc)
    /\ UNCHANGED <<dispatcher, writers, impl, raw, doc, parser, fs, dirs, config, pc>>

\* processor.format(format_type) of the extras copy
FormatExtras(format_type) ==
    /\ impl = "extras"
    /\ Constructed
    /\ LET r == format_extras(proc, format_type)
       IN  /\ ret' = [IF r.ok THEN Returned("format") ELSE Raised("format", r.msg)
                         EXCEPT !.format = format_type]
           /\ log' = IF r.ok THEN <<"format">> ELSE <<>>
    /\ proc' = after_formatting(proc)
    /\ UNCHANGED <<dispatcher, writers, impl, raw, doc, parser, fs, dirs, config, pc>>

\* What a save does: what it returns or raises, the files and directories
\* it leaves and its effects.
Outcome(r, files, ds, effects) == [ret |-> r, fs |-> files, dirs |-> ds, log |-> effects]

\* The rest of save once the content is rendered: the extension is set
\* right, the parent directory is made, the file is written.
save_rendered(r, files, ds, output_path, format_type, expected_ext) ==
    LET call == [Returned("save") EXCEPT !.path = output_path,
                                         !.format = format_type, !.before = files]
        final == IF suffix(output_path.name) # expected_ext
                 THEN Path(output_path.parent, with_suffix(output_path.name, expected_ext))
                 ELSE output_path
    IN  IF ~r.ok
        THEN Outcome([call EXCEPT !.status = "ValueError", !.msg = r.msg],
                     files, ds, <<>>)
        ELSE IF suffix(output_path.name) # expected_ext /\ output_path.name = <<>>
        THEN \* with_suffix raises on a path with an empty name
             Outcome([call EXCEPT !.status = "ValueError", !.msg = <<"has an empty name">>],
                     files, ds, <<"format">>)
        ELSE Outcome([call EXCEPT !.paths = <<final>>],
                     write_text(files, final, r.content), ds \cup {final.parent},
                     <<"format", "mkdir", "write">>)

\* processor.save(output_path) of the core copy
save_core(p, files, ds, output_path) ==
    save_rendered(format_core(p), files, ds, output_path, "markdown", MdExt)

\* processor.save(output_path, format_type) of the extras copy;
\* FILE_EXTENSIONS.get(format_type.lower(), ".txt")
save_extras(p, files, ds, output_path, format_type) ==
    LET ft == LowerName(format_type)
        expected_ext == IF ft \in DOMAIN FILE_EXTENSIONS THEN FILE_EXTENSIONS[ft]
                        ELSE <<".", "txt">>
    IN  save_rendered(format_extras(p, format_type), files, ds, output_path,
                      format_type, expected_ext)

\* A search for a free name that would count in twos.
RECURSIVE FirstFree_in_twos(_, _, _, _)
FirstFree_in_twos(files, file_path, original_path, counter) ==
    IF exists(files, file_path)
    THEN FirstFree_in_twos(files,
                           Path(original_path.parent,
                                stem(original_path.name) \o <<"_">> \o Digits(2 * counter)
                                    \o suffix(original_path.name)),
                           original_path, counter + 1)
    ELSE file_path

\* The while loop of save_individual: the first of original, stem_1suffix,
\* stem_2suffix, ... that does not exist.
RECURSIVE FirstFree(_, _, _, _)
FirstFree(files, file_path, original_path, counter) ==
    IF exists(files, file_path)
    THEN FirstFree(files,
                   Path(original_path.parent,
                        stem(original_path.name) \o <<"_">> \o Digits(counter)
                            \o suffix(original_path.name)),
                   original_path, counter + 1)
    ELSE file_path

\* The for loop of save_individual over the remaining notes; sofar holds the
\* files, the saved paths and the effects up to here.
RECURSIVE SaveEach(_, _, _)
SaveEach(notes, output_dir, sofar) ==
    IF notes = <<>> THEN sofar
    ELSE LET note == Head(notes)
             content == format_single(note)
             original_path == Path(output_dir, get_filename(note))
             file_path == FirstFree(sofar.files, original_path, original_path, 1)
         IN  SaveEach(Tail(notes), output_dir,
                      [files |-> write_text(sofar.files, file_path, content),
                       paths |-> Append(sofar.paths, file_path),
                       log   |-> sofar.log \o <<"format", "write">>])

\* processor.save_individual(output_dir), which only the core copy has
save_individual(p, files, ds, output_dir) ==
    LET call == [Returned("save_individual") EXCEPT !.dir = output_dir,
                                                    !.before = files]
        done == SaveEach(p.notes, output_dir,
                         [files |-> files, paths |-> <<>>, log |-> <<"mkdir">>])
    IN  IF p.notes = <<>>
        THEN Outcome([call EXCEPT !.status = "ValueError",
                          !.msg = <<"No notes parsed. Call parse() first.">>],
                     files, ds, <<>>)
        ELSE Outcome([call EXCEPT !.paths = done.paths],
                     done.files, ds \cup {output_dir}, done.log)

\* The for loop of save_all over the remaining formats; sofar is the
\* outcome up to here, and the first save that raises ends the loop.
RECURSIVE SaveAllEach(_, _, _, _, _)
SaveAllEach(p, fmts, output_dir, base_name, sofar) ==
    IF fmts = <<>> \/ sofar.ret.status # "ok" THEN sofar
    ELSE LET fmt == Head(fmts)
             output_path == Path(output_dir, base_name \o FILE_EXTENSIONS[fmt])
             o == save_extras(p, sofar.fs, sofar.dirs, output_path, fmt)
         IN  SaveAllEach(p, Tail(fmts), output_dir, base_name,
                 Outcome(IF o.ret.status = "ok"
                         THEN [sofar.ret EXCEPT !.paths = Append(@, output_path)]
                         ELSE [sofar.ret EXCEPT !.status = o.ret.status,
                                                !.msg = o.ret.msg],
                         o.fs, o.dirs, sofar.log \o o.log))

\* processor.save_all(output_dir, base_name), which only the extras copy
\* has: the directory is made, then every format is saved in turn.
save_all(p, files, ds, output_dir, base_name) ==
    SaveAllEach(p, <<"yaml", "markdown", "text", "json">>, output_dir, base_name,
        Outcome([Returned("save_all") EXCEPT !.dir = output_dir, !.before = files],
                files, ds \cup {output_dir}, <<"mkdir">>))

\* The outcome of a save becomes the state.
Saved(o) ==
    /\ ret' = o.ret
    /\ fs' = o.fs
    /\ dirs' = o.dirs
    /\ log' = o.log
    /\ proc' = after_formatting(proc)
    /\ UNCHANGED <<dispatcher, writers, impl, raw, doc, parser, config, pc>>

SaveCore(output_path) ==
    /\ impl = "core"
    /\ Constructed
    /\ Saved(save_core(proc, fs, dirs, output_path))

SaveExtras(output_path, format_type) ==
    /\ impl = "extras"
    /\ Constructed
    /\ Saved(save_extras(proc, fs, dirs, output_path, format_type))

SaveIndividual(output_dir) ==
    /\ impl = "core"
    /\ Constructed
    /\ Saved(save_individual(proc, fs, dirs, output_dir))

SaveAll(output_dir, base_name) ==
    /\ impl = "extras"
    /\ Constructed
    /\ Saved(save_all(proc, fs, dirs, output_dir, base_name))

-----------------------------------------------------------------------------
(* The event system of src/src/events.py.  A listener is named by what it  *)
(* does when called: "ok" returns, "raises" raises, "removes_self" calls   *)
(* remove_listener on itself for the event's type, "adds_ok" calls         *)
(* add_listener with the listener "ok" for the event's type.               *)

\* Two of the five members of EventType.
EventType == {"STATUS_UPDATED", "ERROR_OCCURRED"}

ListenerKinds == {"ok", "raises", "removes_self", "adds_ok"}

\* self._listeners = {}
NoListeners == [t \in {} |-> <<>>]

\* EventDispatcher.__init__; the fields after _listeners describe the last
\* dispatch: the event's type, whether the for loop is still running, the
\* position of the loop's list iterator, the listeners called so far, the
\* errors printed, and `initial`, the list as it was when dispatch began.
NewDispatcher ==
    [_listeners |-> NoListeners, type |-> "", active |-> FALSE, index |-> 0,
     called |-> <<>>, printed |-> 0, initial |-> <<>>]

\* self._listeners[event_type] where the key is present, else no list.
Registered(listeners, event_type) ==
    IF event_type \in DOMAIN listeners THEN listeners[event_type] ELSE <<>>

\* EventDispatcher.add_listener
add_listener(listeners, event_type, listener) ==
    [t \in DOMAIN listeners \cup {event_type} |->
        IF t = event_type THEN Append(Registered(listeners, event_type), listener)
        ELSE listeners[t]]

\* A list.remove that would take out the latest equal element.
list_remove_latest(list, x) ==
    LET i == CHOOSE k \in 1..Len(list) :
                 list[k] = x /\ \A j \in (k + 1)..Len(list) : list[j] # x
    IN  SubSeq(list, 1, i - 1) \o SubSeq(list, i + 1, Len(list))

\* list.remove(x) on a list that holds x: the first equal element goes.
list_remove(list, x) ==
    LET i == CHOOSE k \in 1..Len(list) : list[k] = x /\ \A j \in 1..(k - 1) : list[j] # x
    IN  SubSeq(list, 1, i - 1) \o SubSeq(list, i + 1, Len(list))

\* EventDispatcher.remove_listener: ValueError of list.remove is swallowed,
\* and a list that became empty is deleted.
remove_listener(listeners, event_type, listener) ==
    IF event_type \notin DOMAIN listeners THEN listeners
    ELSE IF \A k \in 1..Len(listeners[event_type]) : listeners[event_type][k] # listener
    THEN listeners
    ELSE LET rest == list_remove(listeners[event_type], listener)
         IN  IF rest = <<>>
             THEN [t \in DOMAIN listeners \ {event_type} |-> listeners[t]]
             ELSE [listeners EXCEPT ![event_type] = rest]

\* Calling a listener with an event of the type: what it does to _listeners.
Call(listener, listeners, event_type) ==
    IF listener = "removes_self" THEN remove_listener(listeners, event_type, listener)
    ELSE IF listener = "adds_ok" THEN add_listener(listeners, event_type, "ok")
    ELSE listeners

Registrations(listeners) ==
    LET RECURSIVE Sum(_)
        Sum(T) == IF T = {} THEN 0
                  ELSE LET t == CHOOSE x \in T : TRUE
                       IN  Len(listeners[t]) + Sum(T \ {t})
    IN  Sum(DOMAIN listeners)

\* dispatcher.add_listener(event_type, listener), outside of a dispatch
AddListener(event_type, listener) ==
    /\ ~dispatcher.active
    /\ dispatcher' = [NewDispatcher EXCEPT
                         !._listeners = add_listener(dispatcher._listeners, event_type,
                                                     listener)]
    /\ ret' = Returned("add_listener")
    /\ UNCHANGED <<writers, impl, raw, doc, parser, proc, fs, dirs, config, log, pc>>

\* dispatcher.remove_listener(event_type, listener), outside of a dispatch
RemoveListener(event_type, listener) ==
    /\ ~dispatcher.active
    /\ dispatcher' = [NewDispatcher EXCEPT
                         !._listeners = remove_listener(dispatcher._listeners, event_type,
                                                        listener)]
    /\ ret' = Returned("remove_listener")
    /\ UNCHANGED <<writers, impl, raw, doc, parser, proc, fs, dirs, config, log, pc>>

\* dispatcher.dispatch(Event(event_type)) up to the for statement: the loop
\* is entered over the list of the type, if the type has one.
DispatchEvent(event_type) ==
    /\ ~dispatcher.active
    /\ dispatcher' = [NewDispatcher EXCEPT
                         !._listeners = dispatcher._listeners,
                         !.type = event_type,
                         !.active = event_type \in DOMAIN dispatcher._listeners,
                         !.initial = Registered(dispatcher._listeners, event_type)]
    /\ ret' = Returned("dispatch")
    /\ UNCHANGED <<writers, impl, raw, doc, parser, proc, fs, dirs, config, log, pc>>

\* One turn of `for listener in self._listeners[event.event_type]`: the list
\* iterator yields the element at its position in the list as it is now, or
\* ends the loop when the position is past the end.  The list object is the
\* one of the registry as long as it has elements, and an emptied list ends
\* the loop at once.
DispatchListener ==
    /\ dispatcher.active
    /\ LET list == Registered(dispatcher._listeners, dispatcher.type)
       IN  IF dispatcher.index < Len(list)
           THEN LET listener == list[dispatcher.index + 1]
                IN  dispatcher' = [dispatcher EXCEPT
                        !.index = @ + 1,
                        !.called = Append(@, listener),
                        !.printed = IF listener = "raises" THEN @ + 1 ELSE @,
                        !._listeners = Call(listener, @, dispatcher.type)]
           ELSE dispatcher' = [dispatcher EXCEPT !.active = FALSE]
    /\ UNCHANGED <<writers, impl, raw, doc, parser, proc, fs, dirs, config, ret, log, pc>>

-----------------------------------------------------------------------------
(* The entry points: ZettelkastenController.process_xml of the GUI and     *)
(* main of the command line, both on the core pipeline.  Further effects:  *)
(* "status" (a status notification) and "config.write".                    *)

\* zettelkasten_config.json: absent, or one record of saved values.
NoConfig == <<>>
ConfigOf(author, reference, chapter, output_dir) ==
    <<[author |-> author, reference |-> reference, chapter |-> chapter,
       output_dir |-> output_dir]>>

\* ConfigManager.load / controller.load_config: the saved values, the
\* defaults when there is no file.
load_config(c) == IF c = NoConfig THEN ConfigOf(<<>>, <<>>, <<>>, <<>>)[1] ELSE c[1]

\* A save that would write the four values as they are given.
ConfigManager_save_as_given(c, author, reference, chapter, output_dir) ==
    ConfigOf(author, reference, chapter, output_dir)

\* ConfigManager.save: only the values that are not empty replace saved ones.
ConfigManager_save(c, author, reference, chapter, output_dir) ==
    LET old == load_config(c)
    IN  ConfigOf(IF author # <<>> THEN author ELSE old.author,
                 IF reference # <<>> THEN reference ELSE old.reference,
                 IF chapter # <<>> THEN chapter ELSE old.chapter,
                 IF output_dir # <<>> THEN output_dir ELSE old.output_dir)

\* An enrichment that would reach the first note of the batch only.
set_author_reference_chapter_first(notes, author, reference, chapter) ==
    [k \in 1..Len(notes) |->
        IF k > 1 THEN notes[k]
        ELSE [notes[k] EXCEPT
                 !.author = IF author \notin {<<>>, None} THEN author ELSE @,
                 !.reference = IF reference \notin {<<>>, None} THEN reference ELSE @,
                 !.chapter = IF chapter \notin {<<>>, None} THEN chapter ELSE @]]

\* An enrichment that would assign whatever it is given, None included.
set_author_reference_chapter_assigning(notes, author, reference, chapter) ==
    [k \in 1..Len(notes) |->
        [notes[k] EXCEPT
            !.author = IF author = <<>> THEN None ELSE author,
            !.reference = IF reference = <<>> THEN None ELSE reference,
            !.chapter = IF chapter = <<>> THEN None ELSE chapter]]

\* ZettelkastenProcessor.set_author_reference_chapter: every note takes the
\* values that are given and not empty.
set_author_reference_chapter(notes, author, reference, chapter) ==
    [k \in 1..Len(notes) |->
        [notes[k] EXCEPT
            !.author = IF author \notin {<<>>, None} THEN author ELSE @,
            !.reference = IF reference \notin {<<>>, None} THEN reference ELSE @,
            !.chapter = IF chapter \notin {<<>>, None} THEN chapter ELSE @]]

\* processor.set_author_reference_chapter(author, reference, chapter) of the
\* core copy.  The processor's notes are the parser's own Note objects.
SetAuthorReferenceChapter(author, reference, chapter) ==
    /\ impl = "core"
    /\ Constructed
    /\ proc' = [proc EXCEPT !.notes =
                    set_author_reference_chapter(@, author, reference, chapter)]
    /\ parser' = IF pc = "parsed"
                 THEN [parser EXCEPT !.notes =
                          set_author_reference_chapter(@, author, reference, chapter)]
                 ELSE parser
    /\ ret' = Returned("set_author_reference_chapter")
    /\ log' = <<>>
    /\ UNCHANGED <<dispatcher, writers, impl, raw, doc, fs, dirs, config, pc>>

\* The result of an entry point: a ProcessingResult, or the exit of main.
Result(op, status, msg, paths) ==
    [Returned(op) EXCEPT !.status = status, !.msg = msg, !.paths = paths]

\* The status callbacks a view can set: none, one that returns, one that
\* raises whenever it is called, one that raises on the "Saving ..."
\* messages only.
StatusCallbacks == {"none", "ok", "raises", "raises_on_saving"}

\* Whether the callback raises on this message.
CallbackRaises(status_callback, message) ==
    \/ status_callback = "raises"
    \/ status_callback = "raises_on_saving" /\ message = "Saving"

\* _notify_status: the callback is called when one is set, with nothing
\* around the call to catch what it raises.
Notify(status_callback, message) ==
    IF status_callback = "none" THEN <<>>
    ELSE IF CallbackRaises(status_callback, message) THEN <<"status raised">>
    ELSE <<"status">>

\* EventDispatcher.dispatch over listeners that leave the registry alone:
\* every listener of the event is called in registration order, what one
\* raises being caught and printed.
dispatch(listeners) ==
    [invoked |-> [i \in 1..Len(listeners) |-> i],
     printed |-> Len(SelectSeq(listeners, LAMBDA l : l = "raises")),
     raised  |-> FALSE]

\* controller.process_xml(xml_content, author, reference, chapter,
\* output_dir, split_notes) on the raw input, from the state s (parser, proc,
\* fs, dirs, config); output_dir "" is None, which becomes the working
\* directory.
process_xml(xml_content, d, s, meta, output_dir, split_notes, status_callback) ==
    IF strip(xml_content) = <<>>
    THEN [s EXCEPT !.ret = Result("process_xml", "failure", <<"Empty input">>, <<>>),
                   !.log = <<>>]
    ELSE IF CallbackRaises(status_callback, "Parsing")
    THEN [s EXCEPT !.ret = [Returned("process_xml") EXCEPT !.status = "Exception",
                                                           !.msg = <<"listener">>],
                   !.log = Notify(status_callback, "Parsing")]
    ELSE LET r == parse_core(d, NewParser(xml_content))
             notes == IF meta.author # <<>> \/ meta.reference # <<>> \/ meta.chapter # <<>>
                      THEN set_author_reference_chapter(r.parser.notes,
                               meta.author, meta.reference, meta.chapter)
                      ELSE r.parser.notes
             p == [NewProcessor EXCEPT !.notes = notes]
             dir == IF output_dir = "" THEN "cwd" ELSE output_dir
             o == IF split_notes THEN save_individual(p, s.fs, s.dirs, dir)
                  ELSE save_core(p, s.fs, s.dirs,
                                 Path(dir, <<"zettelkasten_notes", ".", "md">>))
             parsed == [s EXCEPT
                           !.parser = [r.parser EXCEPT !.notes = notes],
                           !.proc = p,
                           !.config = ConfigOf(meta.author, meta.reference, meta.chapter,
                                               IF output_dir = "" THEN <<>>
                                               ELSE <<output_dir>>)]
             told == Notify(status_callback, "Parsing") \o <<"ET.fromstring", "config.write">>
                         \o Notify(status_callback, "Saving")
         IN  IF r.ret.status # "ok"
             THEN [s EXCEPT !.ret = Result("process_xml", "failure", r.ret.msg, <<>>),
                            !.log = Notify(status_callback, "Parsing") \o <<"ET.fromstring">>,
                            !.parser = r.parser,
                            !.proc = NewProcessor]
             ELSE IF CallbackRaises(status_callback, "Saving")
             THEN [parsed EXCEPT
                      !.ret = Result("process_xml", "failure", <<"listener">>, <<>>),
                      !.log = told]
             ELSE [parsed EXCEPT
                      !.ret = IF o.ret.status = "ok"
                              THEN Result("process_xml", "success", <<>>, o.ret.paths)
                              ELSE Result("process_xml", "failure", o.ret.msg, <<>>),
                      !.log = told \o o.log,
                      !.fs = o.fs,
                      !.dirs = o.dirs]

\* The state process_xml works on.
ControllerState ==
    [parser |-> parser, proc |-> proc, fs |-> fs, dirs |-> dirs, config |-> config,
     ret |-> ret, log |-> log]

ProcessXml(meta, output_dir, split_notes, status_callback) ==
    /\ impl = "core"
    /\ pc = "start"
    /\ pc' = "done"
    /\ UNCHANGED <<dispatcher, writers, impl, raw, doc>>
    /\ \E o \in {process_xml(raw, doc, ControllerState, meta, output_dir, split_notes,
                               status_callback)} :
           /\ ret' = o.ret
           /\ log' = o.log
           /\ parser' = o.parser
           /\ proc' = o.proc
           /\ fs' = o.fs
           /\ dirs' = o.dirs
           /\ config' = o.config

\* prompt_with_prefill: what was typed, or the saved value.
prompt_with_prefill(typed, prefill) == IF typed # <<>> THEN typed ELSE prefill

\* prompt_for_author_reference: the three answers.
prompt_for_author_reference(c, typed) ==
    [author    |-> prompt_with_prefill(typed.author, load_config(c).author),
     reference |-> prompt_with_prefill(typed.reference, load_config(c).reference),
     chapter   |-> prompt_with_prefill(typed.chapter, load_config(c).chapter)]

\* f"{base_name}_notes"
NotesDir(base_name) == IF base_name = "in" THEN "in_notes" ELSE "notes_notes"

\* python -m src.cli.main on the raw input.  run holds the command line and
\* the terminal: imports (whether the build gets past the import of
\* src.core.parser, whose annotations name Optional without importing it),
\* input_file ("" for stdin), found, meta (None where an option is absent),
\* no_prompt, interactive, typed (the answers at the prompt), aborted,
\* mode ("stdout", "split", "file") and output ("" when absent).
MainCli(run) ==
    /\ impl = "core"
    /\ pc = "start"
    /\ pc' = "done"
    /\ UNCHANGED <<dispatcher, writers, impl, raw, doc>>
    /\ LET should_prompt == /\ run.interactive /\ ~run.no_prompt
                            /\ run.meta.author = None /\ run.meta.reference = None
                            /\ run.meta.chapter = None
           meta == IF should_prompt THEN prompt_for_author_reference(config, run.typed)
                   ELSE run.meta
           config1 == IF should_prompt
                      THEN ConfigManager_save(config, meta.author, meta.reference,
                                              meta.chapter, <<>>)
                      ELSE config
           prompted == IF should_prompt THEN <<"config.write">> ELSE <<>>
           r == parse_core(doc, NewParser(raw))
           p == [NewProcessor EXCEPT !.notes =
                     set_author_reference_chapter(r.parser.notes, meta.author,
                                                  meta.reference, meta.chapter)]
           base_name == IF run.input_file # "" THEN run.input_file
                        ELSE IF run.mode = "split" THEN "notes" ELSE "zettelkasten"
           f == format_core(p)
           o == IF run.mode = "split"
                THEN save_individual(p, fs, dirs,
                         IF run.output # "" THEN run.output ELSE NotesDir(base_name))
                ELSE save_core(p, fs, dirs,
                         IF run.output # "" THEN Path("cwd", <<run.output>>)
                         ELSE Path("cwd", <<base_name, ".", "md">>))
           Exit(msg) == Result("main", "exit 1", msg, <<>>)
       IN  IF ~run.imports
           THEN /\ ret' = Result("main", "NameError",
                                 <<"name 'Optional' is not defined">>, <<>>)
                /\ log' = <<>>
                /\ UNCHANGED <<parser, proc, fs, dirs, config>>
           ELSE IF run.input_file # "" /\ ~run.found
           THEN /\ ret' = Exit(<<"Error: File not found: ", run.input_file>>)
                /\ log' = <<>>
                /\ UNCHANGED <<parser, proc, fs, dirs, config>>
           ELSE IF strip(raw) = <<>>
           THEN /\ ret' = Exit(<<"Error: No XML content provided">>)
                /\ log' = <<>>
                /\ UNCHANGED <<parser, proc, fs, dirs, config>>
           ELSE IF should_prompt /\ run.aborted
           THEN /\ ret' = Exit(<<"Aborted.">>)
                /\ log' = <<>>
                /\ UNCHANGED <<parser, proc, fs, dirs, config>>
           ELSE IF r.ret.status # "ok"
           THEN /\ ret' = Exit(<<"Error: ">> \o r.ret.msg)
                /\ log' = prompted \o <<"ET.fromstring">>
                /\ parser' = r.parser
                /\ proc' = NewProcessor
                /\ config' = config1
                /\ UNCHANGED <<fs, dirs>>
           ELSE /\ parser' = [r.parser EXCEPT !.notes = p.notes]
                /\ proc' = p
                /\ config' = config1
                /\ IF run.mode = "stdout"
                   THEN /\ ret' = IF f.ok THEN Result("main", "exit 0", <<>>, <<>>)
                                  ELSE Exit(<<"Error: ">> \o f.msg)
                        /\ log' = prompted \o <<"ET.fromstring">>
                                      \o (IF f.ok THEN <<"format">> ELSE <<>>)
                        /\ UNCHANGED <<fs, dirs>>
                   ELSE /\ ret' = IF o.ret.status = "ok"
                                  THEN Result("main", "exit 0", <<>>, o.ret.paths)
                                  ELSE Exit(<<"Error: ">> \o o.ret.msg)
                        /\ log' = prompted \o <<"ET.fromstring">> \o o.log
                        /\ fs' = o.fs
                        /\ dirs' = o.dirs

-----------------------------------------------------------------------------
(* Input documents.                                                        *)

\* The elements of the structural documents, tag and text: what the root
\* may be, and what an element under it may be.
RootLabels ==
    {[tag |-> "notes", text |-> <<>>], [tag |-> "gap_analysis", text |-> <<>>],
     [tag |-> "note", text |-> <<>>], [tag |-> "wrapper", text |-> <<>>]}
InnerLabels ==
    {[tag |-> "notes", text |-> <<>>], [tag |-> "gap_analysis", text |-> <<>>],
     [tag |-> "note", text |-> <<>>], [tag |-> "title", text |-> <<"a">>]}

\* Every document of exactly n elements over the labels: any tree shape.
RECURSIVE DocsOfSize(_)
DocsOfSize(n) ==
    IF n = 1 THEN {<<Elem(l.tag, 0, l.text, <<>>)>> : l \in RootLabels}
    ELSE UNION {{Append(d, Elem(l.tag, k, l.text, <<>>)) :
                     l \in InnerLabels, k \in 1..(d[n - 1].depth + 1)} :
                d \in DocsOfSize(n - 1)}

StructDocs == UNION {DocsOfSize(n) : n \in 1..MaxNodes}

\* <notes> with k <note> children, the j-th titled with the digits of j.
FlatNotesDoc(k) ==
    <<Elem("notes", 0, <<>>, <<>>)>> \o
    [i \in 1..(2 * k) |-> IF i % 2 = 1 THEN Elem("note", 1, <<>>, <<>>)
                          ELSE Elem("title", 2, Digits(i \div 2), <<>>)]

LongDocs == {FlatNotesDoc(k) : k \in {12, 105}}

\* The inputs of the parse scenarios: a document, or text that is no document.
ParseInputs ==
    {[raw |-> <<XMLDOC>>, doc |-> d] : d \in StructDocs \cup LongDocs}
    \cup {[raw |-> r, doc |-> <<Elem("notes", 0, <<>>, <<>>)>>] :
              r \in {<<JUNK>>, <<XMLDOC, XMLDOC>>,
                     <<FENCE, "x", "m", "l", NL, XMLDOC, NL, FENCE>>}}

InitParse ==
    /\ impl \in Impls
    /\ \E in \in ParseInputs : raw = in.raw /\ doc = in.doc
    /\ parser = NoParser
    /\ proc = NewProcessor
    /\ fs = NoFiles
    /\ dirs = {}
    /\ config = NoConfig
    /\ ret = NoCall
    /\ log = <<>>
    /\ pc = "start"
    /\ dispatcher = NewDispatcher
    /\ writers = <<>>

NextParse == Construct \/ Parse

\* A processor is built on one input and parses it.
SpecParse == InitParse /\ [][NextParse]_vars

-----------------------------------------------------------------------------
(* The other scenarios: their inputs and specifications.                   *)

MaxBatch == 3        \* notes in one document of the save scenarios
MaxFiles == 6        \* files in the filesystem before a save is taken

\* <notes> with one <note> per title: <title> is its only child.
TitledDoc(titles) ==
    <<Elem("notes", 0, <<>>, <<>>)>> \o
    [i \in 1..(2 * Len(titles)) |->
        IF i % 2 = 1 THEN Elem("note", 1, <<>>, <<>>)
        ELSE Elem("title", 2, titles[i \div 2], <<>>)]

\* <notes><note><tag>text</tag></note></notes>
FieldDoc(tag, text) ==
    <<Elem("notes", 0, <<>>, <<>>), Elem("note", 1, <<>>, <<>>), Elem(tag, 2, text, <<>>)>>

GapDoc == <<Elem("gap_analysis", 0, <<>>, <<>>), Elem("verdict", 1, <<"a">>, <<>>)>>
WrapperDoc == <<Elem("wrapper", 0, <<>>, <<>>)>>

\* Titles whose file names collide: "a-b" three times over, and the empty
\* name twice.
Titles == {<<"A", " ", "b">>, <<"a", "_", "b">>, <<"a", " ", " ", "b">>,
           <<"!">>, <<"-", "?">>, <<"b">>}

TitleSeqs == UNION {[1..n -> Titles] : n \in 0..MaxBatch}

\* The pipeline before anything has run, on one input.
Begin(in) ==
    /\ raw = in.raw
    /\ doc = in.doc
    /\ parser = NoParser
    /\ proc = NewProcessor
    /\ dirs = {}
    /\ ret = NoCall
    /\ log = <<>>
    /\ pc = "start"

\* The state before anything has run, on one input: a dispatcher without
\* listeners, and no save under way.
Start(in) ==
    /\ Begin(in)
    /\ dispatcher = NewDispatcher
    /\ writers = <<>>

OfDoc(d) == [raw |-> <<XMLDOC>>, doc |-> d]
OfText(r) == [raw |-> r, doc |-> WrapperDoc]

\* Field scenarios: one note with one list field, of every short text.
FieldTexts ==
    [tags        |-> TextsUpTo({"a", "|", " ", "b", NOMENT}, MaxTextLen),
     mentions    |-> TextsUpTo({"a", "|", " ", "@", NOMENT}, MaxTextLen)
                         \cup {<<"a", "|", "@", "b">>, <<"a", "|", "@", "b", "|", " ">>},
     connections |-> TextsUpTo({"[", "]", "a", " "}, MaxTextLen)
                         \cup {<<"[", "[", " ", "]", "]">>,
                               <<"[", "[", "a", "]", "]">>,
                               <<"[", "[", "[", "a", "]", "]">>,
                               <<"[", "[", "a", "[", "b", "]", "]">>,
                               <<"n", "o", "n", "e">>,
                               <<"x", " ", "[", "[", "a", "]", "]", " ", "y", " ",
                                 "[", "[", "b", " ", "c", "]", "]">>}]

InitFields ==
    /\ impl \in Impls
    /\ \E tag \in DOMAIN FieldTexts : \E text \in FieldTexts[tag] :
           Start(OfDoc(FieldDoc(tag, text)))
    /\ fs = NoFiles
    /\ config = NoConfig

SpecFields == InitFields /\ [][NextParse]_vars

\* Sanitizer scenarios: the parser is constructed on every short text and
\* on fenced documents.
FencedTexts ==
    {open \o body \o close :
        open \in {<<>>, <<FENCE, NL>>, <<FENCE, "x", "m", "l", NL>>,
                  <<FENCE, "j", NL>>, <<FENCE, "x", "m", NL>>},
        body \in {<<XMLDOC>>, <<XMLDOC, NL, FENCE, NL, XMLDOC>>,
                  <<XMLDOC, NL, FENCE, "x", "m", "l", NL, XMLDOC>>},
        close \in {<<>>, <<NL, FENCE>>, <<NL, FENCE, NL>>, <<NL, FENCE, NL, FENCE>>}}

CleanTexts == TextsUpTo({FENCE, "x", "j", NL, XMLDOC, " "}, MaxTextLen) \cup FencedTexts

InitClean ==
    /\ impl \in Impls
    /\ \E r \in CleanTexts : Start(OfText(r))
    /\ fs = NoFiles
    /\ config = NoConfig

NextClean == Construct

SpecClean == InitClean /\ [][NextClean]_vars

\* Split scenarios: the core processor parses a batch of titled notes and
\* saves them one file each, into a directory that may hold files already.
SplitDirs == {"out", "alt"}

PreExisting ==
    {Path("out", <<"a", "-", "b", ".", "md">>),
     Path("out", <<"a", "-", "b", "_", "1", ".", "md">>),
     Path("out", <<".", "md">>)}

InitSplit ==
    /\ impl = "core"
    /\ \E titles \in TitleSeqs : Start(OfDoc(TitledDoc(titles)))
    /\ \E S \in SUBSET PreExisting : fs = [path \in S |-> Foreign]
    /\ config = NoConfig

NextSplit ==
    \/ Construct
    \/ ParseCore
    \/ /\ Cardinality(DOMAIN fs) + Len(proc.notes) <= MaxFiles
       /\ \E output_dir \in SplitDirs : SaveIndividual(output_dir)

SpecSplit == InitSplit /\ [][NextSplit]_vars

\* Save scenarios: a parsed model is saved to one file under every kind
\* of name and every format name.
MaxSaved == 1        \* files in the filesystem before a save is taken

FormatTypes == {"yaml", "markdown", "md", "text", "txt", "json", "MD", "pdf"}

SaveNames ==
    {<<"n">>, <<"n", ".", "md">>, <<"n", ".", "yaml">>, <<"n", ".", "txt">>,
     <<"n", ".", "json">>, <<"n", ".", "x", ".", "md">>, <<"n", ".", "md", ".", "x">>,
     <<".", "md">>, <<"n", ".">>, <<"md">>}

\* Path("."), which has no name, is among them.
SavePaths == {Path("out", name) : name \in SaveNames} \cup {Path("cwd", <<>>)}

SaveDocs == {TitledDoc(<<>>), TitledDoc(<<<<"b">>>>), GapDoc}

InitSave ==
    /\ impl \in Impls
    /\ \E d \in SaveDocs : Start(OfDoc(d))
    /\ fs = NoFiles
    /\ config = NoConfig

NextSave ==
    \/ Construct
    \/ Parse
    \/ /\ Cardinality(DOMAIN fs) <= MaxSaved
       /\ \E output_path \in SavePaths :
              \/ SaveCore(output_path)
              \/ \E format_type \in FormatTypes : SaveExtras(output_path, format_type)

SpecSave == InitSave /\ [][NextSave]_vars

\* Processor scenarios: every operation of the processor in any order,
\* before a parse, after a parse and after a parse that failed.
ProcInputs ==
    {OfDoc(d) : d \in {TitledDoc(<<>>), TitledDoc(<<<<"b">>>>),
                       TitledDoc(<<<<"b">>, <<"b">>>>), GapDoc, WrapperDoc}}
    \cup {OfText(<<JUNK>>), OfText(<<>>)}

InitProc ==
    /\ impl \in Impls
    /\ \E in \in ProcInputs : Start(in)
    /\ fs = NoFiles
    /\ config = NoConfig

NextProc ==
    \/ Construct
    \/ Parse
    \/ FormatCore
    \/ \E k \in 1..MaxBatch : FormatSingle(k)
    \/ \E format_type \in {"yaml", "MD", "pdf"} : FormatExtras(format_type)
    \/ \E base_name \in {<<"z">>, <<>>} : SaveAll("all", base_name)
    \/ /\ Cardinality(DOMAIN fs) + Len(proc.notes) <= MaxFiles
       /\ \/ \E name \in {<<"n">>, <<"m", ".", "md">>} : SaveCore(Path("out", name))
          \/ \E name \in {<<"n">>, <<"m", ".", "md">>}, format_type \in {"json", "md", "pdf"} :
                 SaveExtras(Path("out", name), format_type)
          \/ SaveIndividual("out")

SpecProc == InitProc /\ [][NextProc]_vars

\* Enrichment scenarios: a batch is parsed and enriched any number of times
\* with values that are absent, empty or given.
EnrichDocs ==
    {TitledDoc(titles) :
        titles \in UNION {[1..n -> {<<"b">>, <<"a", "_", "b">>}] : n \in 0..MaxBatch}}
    \cup {WrapperDoc}

EnrichValues == {None, <<>>, <<"A">>, <<"B">>}

InitEnrich ==
    /\ impl = "core"
    /\ \E d \in EnrichDocs : Start(OfDoc(d))
    /\ fs = NoFiles
    /\ config = NoConfig

NextEnrich ==
    \/ Construct
    \/ ParseCore
    \/ \E author \in EnrichValues, reference \in EnrichValues, chapter \in EnrichValues :
           SetAuthorReferenceChapter(author, reference, chapter)

SpecEnrich == InitEnrich /\ [][NextEnrich]_vars

\* Anchor scenarios: a batch of one titled note is saved as Markdown, whose
\* table of contents carries the slug of the title.
HelloWorld == <<"H", "e", "l", "l", "o", ",", " ", "W", "o", "r", "l", "d", "!">>

SlugTitles == TextsUpTo({"A", "a", " ", "_", "-", "!"}, MaxTextLen) \cup {HelloWorld}

TocPath == Path("out", <<"n", ".", "md">>)

InitSlug ==
    /\ impl \in Impls
    /\ \E title \in SlugTitles : Start(OfDoc(TitledDoc(<<title>>)))
    /\ fs = NoFiles
    /\ config = NoConfig

NextSlug ==
    \/ Construct
    \/ Parse
    \/ SaveCore(TocPath)
    \/ SaveExtras(TocPath, "markdown")

SpecSlug == InitSlug /\ [][NextSlug]_vars

\* File name scenarios: one titled note is split-saved; the titles are short
\* ones over letters, hyphens, underscores and U+0130, and ones around the
\* length limit of the name.
LongTitle(n, first, last) ==
    [i \in 1..n |-> IF i = 1 THEN first ELSE IF i = n THEN last ELSE "a"]

NameTitles ==
    TextsUpTo({"A", "-", "_", "I_DOT"}, MaxTextLen)
    \cup {LongTitle(FilenameLimit + k, first, last) :
              k \in 0..2, first \in {"a", "-"}, last \in {"a", "-"}}
    \cup {LongTitle(FilenameLimit + 1, "a", "a") \o <<"-", "b">>}

InitNames ==
    /\ impl = "core"
    /\ \E title \in NameTitles : Start(OfDoc(TitledDoc(<<title>>)))
    /\ fs = NoFiles
    /\ config = NoConfig

NextNames ==
    \/ Construct
    \/ ParseCore
    \/ /\ fs = NoFiles
       /\ SaveIndividual("out")

SpecNames == InitNames /\ [][NextNames]_vars

\* Content scenarios: <content> texts put together from whole tokens, halves
\* of tokens, blanks and letters, so that tokens stand side by side, inside
\* one another and split by one another.
MaxPieces == 3

ContentPieces ==
    {BREAK, BULLET, <<"[", "B", "R", "E">>, <<"A", "K", "]">>,
     <<"[", "B", "U", "L">>, <<"L", "E", "T", "]">>, <<" ">>, <<"C">>}

RECURSIVE Concat(_)
Concat(pieces) == IF pieces = <<>> THEN <<>> ELSE Head(pieces) \o Concat(Tail(pieces))

ContentTexts ==
    {Concat(pieces) : pieces \in UNION {[1..n -> ContentPieces] : n \in 0..MaxPieces}}
    \cup {<<"A">> \o BREAK \o <<"B">> \o BULLET \o <<" ", "C">>,
          BULLET \o <<" ", " ", "C">>}

InitContent ==
    /\ impl \in Impls
    /\ \E text \in ContentTexts : Start(OfDoc(FieldDoc("content", text)))
    /\ fs = NoFiles
    /\ config = NoConfig

SpecContent == InitContent /\ [][NextParse]_vars

\* Entry scenarios: one input goes through the GUI controller, through the
\* command line, or straight to a processor.
BlankTexts == TextsUpTo({" ", NL}, MaxTextLen)

EntryInputs ==
    {OfText(r) : r \in BlankTexts \cup {<<JUNK>>}}
    \cup {OfDoc(d) : d \in {TitledDoc(<<>>), TitledDoc(<<<<"b">>, <<"b">>>>), GapDoc}}
    \cup {[raw |-> <<" ", XMLDOC, NL>>, doc |-> TitledDoc(<<<<"b">>>>)]}

\* author, reference and chapter as the GUI hands them over, "" when the
\* field is left empty.
Metas ==
    {[author |-> <<>>, reference |-> <<>>, chapter |-> <<>>],
     [author |-> <<"A">>, reference |-> <<>>, chapter |-> <<"1">>]}

\* Command lines and terminals.
CliRuns ==
    [imports : BOOLEAN, input_file : {"", "in"}, found : BOOLEAN,
     meta : {[author |-> None, reference |-> None, chapter |-> None],
             [author |-> <<"A">>, reference |-> None, chapter |-> None]},
     no_prompt : {FALSE}, interactive : BOOLEAN,
     typed : {[author |-> <<>>, reference |-> <<"b">>, chapter |-> <<>>]},
     aborted : BOOLEAN, mode : {"stdout", "split", "file"}, output : {"", "out"}]

\* The configuration file before the run: absent, or saved by an earlier one.
SavedConfigs == {NoConfig, ConfigOf(<<"s">>, <<>>, <<>>, <<>>)}

\* Listeners registered for one event.
MaxListeners == 3
ListenerSeqs == UNION {[1..n -> {"ok", "raises"}] : n \in 0..MaxListeners}

InitEntry ==
    /\ impl \in Impls
    /\ \E in \in EntryInputs : Start(in)
    /\ fs = NoFiles
    /\ config \in SavedConfigs

NextEntry ==
    \/ Construct
    \/ Parse
    \/ \E meta \in Metas, output_dir \in {"", "out"}, split_notes \in BOOLEAN,
          status_callback \in StatusCallbacks :
           ProcessXml(meta, output_dir, split_notes, status_callback)
    \/ \E run \in CliRuns : MainCli(run)

SpecEntry == InitEntry /\ [][NextEntry]_vars

\* Gap scenarios: <gap_analysis><critical_gaps>text<gap type=.../>...
\* </critical_gaps></gap_analysis>, the text before the first <gap> being
\* absent, blank, plain or the sentinel, and each <gap> typed or not.
MaxGaps == 3

GapLeadTexts ==
    {<<>>, <<NL, " ">>, <<"a">>, <<NONE_IDENTIFIED>>, <<NL, NONE_IDENTIFIED, " ">>}

\* The type attribute of a <gap>: absent, or its value.
GapTypes == {<<>>, <<<<"X">>>>, <<<<"Y">>>>}

GapListDoc(text, types) ==
    <<Elem("gap_analysis", 0, <<>>, <<>>), Elem("critical_gaps", 1, text, <<>>)>>
    \o [i \in 1..Len(types) |-> Elem("gap", 2, <<>>, types[i])]

GapListDocs ==
    {GapListDoc(text, types) :
        text \in GapLeadTexts, types \in UNION {[1..n -> GapTypes] : n \in 0..MaxGaps}}

InitGaps ==
    /\ impl \in Impls
    /\ \E d \in GapListDocs : Start(OfDoc(d))
    /\ fs = NoFiles
    /\ config = NoConfig

SpecGaps == InitGaps /\ [][NextParse]_vars

-----------------------------------------------------------------------------
(* What the claims speak of, stated on the document itself.                *)

\* The parent of element j: the nearest earlier element one level up.
ParentOf(d, j) ==
    LET S == {i \in 1..(j - 1) : d[i].depth = d[j].depth - 1}
    IN  IF S = {} THEN 0 ELSE CHOOSE i \in S : \A k \in S : k <= i

\* The <note> elements directly under element r, in document order.
NoteChildrenOf(d, r) ==
    InOrder({j \in 2..Len(d) : d[j].tag = "note" /\ ParentOf(d, j) = r})

\* The stripped text of the first child of element e with that tag.
ChildText(d, e, tag) ==
    LET S == {j \in 2..Len(d) : d[j].tag = tag /\ ParentOf(d, j) = e}
    IN  IF S = {} THEN <<>> ELSE strip(d[Min(S)].text)

\* The mode the priority rule of the specification gives a document, and
\* "none" when no rule applies.
ExpectedMode(d) ==
    IF d[1].tag = "notes" THEN "notes"
    ELSE IF d[1].tag = "gap_analysis" THEN "gap_analysis"
    ELSE IF \E j \in 2..Len(d) : d[j].tag = "notes" THEN "notes"
    ELSE IF \E j \in 2..Len(d) : d[j].tag = "gap_analysis" THEN "gap_analysis"
    ELSE "none"

\* The input was one well-formed document and parse has run on it.
ParsedDocument == pc \in {"parsed", "failed"} /\ parser.xml_content = <<XMLDOC>>

\* The notes a successful parse left in the processor.
ParsedNotes == IF impl = "core" THEN proc.notes ELSE proc.data.notes

\* The mode a parse left: the core copy has none, it knows notes only.
ActualMode ==
    IF impl = "extras" THEN proc.mode
    ELSE IF pc = "parsed" THEN "notes" ELSE "None"

\* "note_" and k zero-padded to width 3.
ExpectedId(k) ==
    <<"note_">> \o (IF k < 10 THEN <<"0", "0">> ELSE IF k < 100 THEN <<"0">> ELSE <<>>)
                \o Digits(k)

-----------------------------------------------------------------------------
(* C1: for a notes document whose notes element has N direct note          *)
(* children, parse returns exactly N records in document order and the     *)
(* k-th has id "note_" + k zero-padded to width 3, so the ids are unique   *)
(* and strictly increasing.                                                *)
C1_NotesInDocumentOrder ==
    (pc = "parsed" /\ ActualMode = "notes") =>
        LET children == NoteChildrenOf(doc, parser.root)
        IN  /\ doc[parser.root].tag = "notes"
            /\ Len(ParsedNotes) = Len(children)
            /\ \A k \in 1..Len(children) :
                   /\ ParsedNotes[k].id = ExpectedId(k)
                   /\ ParsedNotes[k].title = ChildText(doc, children[k], "title")
            /\ \A j, k \in 1..Len(children) :
                   j < k => ParsedNotes[j].id # ParsedNotes[k].id

\* A parse of twelve notes: two-digit ids, each note with its own title.
C1_Witness ==
    /\ pc = "parsed"
    /\ Len(ParsedNotes) = 12
    /\ ParsedNotes[12].title = <<"1", "2">>

(* C2: the mode follows the fixed priority: root notes, root gap_analysis, *)
(* a descendant notes, a descendant gap_analysis; a wrapper holding both   *)
(* yields notes mode and a gap_analysis root is accepted as gap_analysis   *)
(* mode.                                                                   *)
C2_ModePriority ==
    (ParsedDocument /\ ExpectedMode(doc) # "none") =>
        /\ pc = "parsed"
        /\ ActualMode = ExpectedMode(doc)
        /\ doc[parser.root].tag = ExpectedMode(doc)
        /\ (doc[1].tag \in {"notes", "gap_analysis"} => parser.root = 1)

\* The same, of the extras copy alone.
C2_ModePriorityExtras == impl = "extras" => C2_ModePriority

(* C3: a root that is neither notes nor gap_analysis, with no such         *)
(* descendant, fails with the unknown-root error, which names the root     *)
(* tag, and no model is produced.                                          *)
C3_UnknownRootNamesTag ==
    (ParsedDocument /\ ExpectedMode(doc) = "none") =>
        /\ pc = "failed"
        /\ ret.status = "ValueError"
        /\ \E i \in 1..Len(ret.msg) : ret.msg[i] = doc[1].tag
        /\ proc.notes = <<>> /\ proc.data = DataNone
        /\ parser.notes = <<>> /\ parser.gap_analysis = <<>>

\* The same, of the extras copy alone.
C3_UnknownRootNamesTagExtras == impl = "extras" => C3_UnknownRootNamesTag

(* C9: the Sanitizer removes at most one leading fence-open line and at    *)
(* most one trailing fence-close line, so that every other fence, a fence  *)
(* in the interior of the text in particular, stays in place; and a        *)
(* leading fence-open line is removed whatever its language tag.           *)

\* The text opens with a fence.
LeadingFence(t) == Len(t) > 0 /\ t[1] = FENCE

\* The last line of the text that is not blank is a fence and nothing else.
TrailingFence(t) ==
    LET u == rstrip(t)
    IN  /\ Len(u) > 0
        /\ u[Len(u)] = FENCE
        /\ (Len(u) = 1 \/ u[Len(u) - 1] = NL)

\* The text is a fence-open line with a language tag, and then a text
\* without fences: the tag and that text.
TaggedOpen(t) ==
    {sp \in [tag : {<<>>, <<"j">>, <<"x">>, <<"x", "m">>, <<"x", "m", "l">>},
             rest : {SubSeq(t, k, Len(t)) : k \in 1..(Len(t) + 1)}] :
        /\ t = <<FENCE>> \o sp.tag \o <<NL>> \o sp.rest
        /\ Count(FENCE, sp.rest) = 0}

C9_AtMostOneFenceEachEnd ==
    pc = "constructed" =>
        /\ Count(FENCE, parser.xml_content) >=
               Count(FENCE, raw) - (IF LeadingFence(raw) THEN 1 ELSE 0)
                                 - (IF TrailingFence(raw) THEN 1 ELSE 0)
        /\ \A sp \in TaggedOpen(raw) : parser.xml_content = strip(sp.rest)

\* The two halves apart: the fences that stay, and the tag of the opening.
C9_InteriorFencesStay ==
    pc = "constructed" =>
        Count(FENCE, parser.xml_content) >=
            Count(FENCE, raw) - (IF LeadingFence(raw) THEN 1 ELSE 0)
                              - (IF TrailingFence(raw) THEN 1 ELSE 0)
C9_AnyLanguageTag ==
    pc = "constructed" =>
        \A sp \in TaggedOpen(raw) : parser.xml_content = strip(sp.rest)

\* What does hold: a document fenced as xml comes out bare.
C9_XmlFenceRemoved ==
    (pc = "constructed" /\ raw = <<FENCE, "x", "m", "l", NL, XMLDOC, NL, FENCE>>) =>
        parser.xml_content = <<XMLDOC>>

(* C10: in every Note that parse produces, whatever the text of the        *)
(* fields, none of the lists tags, mentions and connections holds an empty *)
(* string.                                                                 *)
C10_NoEmptyListItems ==
    pc = "parsed" =>
        \A k \in 1..Len(ParsedNotes) :
            /\ \A i \in 1..Len(ParsedNotes[k].tags) : ParsedNotes[k].tags[i] # <<>>
            /\ \A i \in 1..Len(ParsedNotes[k].mentions) : ParsedNotes[k].mentions[i] # <<>>
            /\ \A i \in 1..Len(ParsedNotes[k].connections) :
                   ParsedNotes[k].connections[i] # <<>>

\* The same of tags and mentions alone, which holds.
C10_NoEmptyTagsOrMentions ==
    pc = "parsed" =>
        \A k \in 1..Len(ParsedNotes) :
            /\ \A i \in 1..Len(ParsedNotes[k].tags) : ParsedNotes[k].tags[i] # <<>>
            /\ \A i \in 1..Len(ParsedNotes[k].mentions) : ParsedNotes[k].mentions[i] # <<>>

-----------------------------------------------------------------------------
\* A save_individual call has returned its paths.
SplitDone == ret.op = "save_individual" /\ ret.status = "ok"

\* Notes i < j of the batch are the first and the second note of one file
\* name.
FirstAndSecond(i, j) ==
    /\ i < j
    /\ get_filename(proc.notes[i]) = get_filename(proc.notes[j])
    /\ \A k \in 1..(j - 1) :
           k # i => get_filename(proc.notes[k]) # get_filename(proc.notes[i])

\* A file name with _k set after its stem.
Numbered(name, k) == stem(name) \o <<"_">> \o Digits(k) \o suffix(name)

\* save_individual keeps every file that was there, and the paths of one
\* batch are pairwise distinct.
NeverOverwrites ==
    /\ \A path \in DOMAIN ret.before :
           path \in DOMAIN fs /\ fs[path] = ret.before[path]
    /\ \A i, j \in 1..Len(ret.paths) : i < j => ret.paths[i] # ret.paths[j]
    /\ \A i \in 1..Len(ret.paths) : ret.paths[i] \notin DOMAIN ret.before

(* C6: under a single writer save_individual never overwrites a file:      *)
(* every file there before the call keeps its content, the paths written   *)
(* for one batch are pairwise distinct, and of two notes with the same     *)
(* file name the first is written to that name and the second to the name  *)
(* suffixed _1, provided neither of the two names is taken in the target   *)
(* directory before the call.                                              *)
C6_NeverOverwrites ==
    SplitDone =>
        /\ NeverOverwrites
        /\ \A i, j \in 1..Len(proc.notes) :
               (/\ FirstAndSecond(i, j)
                /\ Path(ret.dir, get_filename(proc.notes[i])) \notin DOMAIN ret.before
                /\ Path(ret.dir, Numbered(get_filename(proc.notes[i]), 1))
                       \notin DOMAIN ret.before) =>
                   /\ ret.paths[i] = Path(ret.dir, get_filename(proc.notes[i]))
                   /\ ret.paths[j] = Path(ret.dir, Numbered(get_filename(proc.notes[i]), 1))

\* C6 as it stands in the specification: the first to the name and the
\* second to the name suffixed _1, whatever the directory holds.
C6_AsStated ==
    SplitDone =>
        /\ NeverOverwrites
        /\ \A i, j \in 1..Len(proc.notes) :
               FirstAndSecond(i, j) =>
                   /\ ret.paths[i] = Path(ret.dir, get_filename(proc.notes[i]))
                   /\ ret.paths[j] = Path(ret.dir, Numbered(get_filename(proc.notes[i]), 1))

\* Three notes named a-b are saved beside a foreign a-b.md, which is kept.
C6_Witness ==
    /\ SplitDone
    /\ ret.dir = "out"
    /\ Len(ret.paths) = 3
    /\ Path("out", <<"a", "-", "b", ".", "md">>) \in DOMAIN ret.before
    /\ fs[Path("out", <<"a", "-", "b", ".", "md">>)] = Foreign
    /\ \A k \in 1..3 : get_filename(proc.notes[k]) = <<"a", "-", "b", ".", "md">>

(* C8: save_individual returns exactly one path per note, in note order,   *)
(* each in the target directory and each ending with .md; a collision      *)
(* suffix _k stands before the extension (base_k.md), for every title,     *)
(* those whose derived base name is empty included.                        *)
C8_OnePathPerNoteEndingMd ==
    SplitDone =>
        /\ Len(ret.paths) = Len(proc.notes)
        /\ \A k \in 1..Len(ret.paths) :
               LET base == SafeName(proc.notes[k].title)
                   name == ret.paths[k].name
               IN  /\ ret.paths[k].parent = ret.dir
                   /\ fs[ret.paths[k]] = format_single(proc.notes[k])
                   /\ Len(name) >= 2 /\ SubSeq(name, Len(name) - 1, Len(name)) = MdExt
                   /\ \/ name = base \o MdExt
                      \/ \E n \in 1..MaxFiles : name = base \o <<"_">> \o Digits(n) \o MdExt

\* The same of the notes whose derived base name is not empty, which holds.
C8_NamedNotes ==
    SplitDone =>
        /\ Len(ret.paths) = Len(proc.notes)
        /\ \A k \in 1..Len(ret.paths) :
               LET base == SafeName(proc.notes[k].title)
                   name == ret.paths[k].name
               IN  /\ ret.paths[k].parent = ret.dir
                   /\ fs[ret.paths[k]] = format_single(proc.notes[k])
                   /\ base # <<>> =>
                          \/ name = base \o MdExt
                          \/ \E n \in 1..MaxFiles : name = base \o <<"_">> \o Digits(n) \o MdExt

-----------------------------------------------------------------------------
\* The no-data-parsed error of either copy.
NoDataParsed ==
    /\ ret.status = "ValueError"
    /\ ret.msg \in {<<"No notes parsed. Call parse() first.">>,
                    <<"No data parsed. Call parse() first.">>}

(* C5: format, save and save_individual fail with the no-data-parsed error *)
(* when they are asked for before a successful parse on the processor, and *)
(* once parse has succeeded, whatever it produced (a notes document with   *)
(* no note children included), they never fail with that error.           *)
C5_NoDataBeforeParseOnly ==
    ret.op \in {"format", "save", "save_individual"} =>
        (NoDataParsed <=> pc # "parsed")

\* The first half alone, which holds: before a successful parse they fail.
C5_BeforeParse ==
    (ret.op \in {"format", "save", "save_individual"} /\ pc # "parsed") => NoDataParsed

\* The whole of the extras copy alone, which holds.
C5_Extras == impl = "extras" => C5_NoDataBeforeParseOnly

-----------------------------------------------------------------------------
\* The canonical extension of a format name, as the specification lists it.
CanonicalExt(format_type) ==
    IF format_type = "yaml" THEN <<".", "yaml">>
    ELSE IF format_type \in {"markdown", "md", "MD"} THEN <<".", "md">>
    ELSE IF format_type \in {"text", "txt"} THEN <<".", "txt">>
    ELSE <<".", "json">>

\* s ends with the text e.
EndsWith(s, e) == Len(s) >= Len(e) /\ SubSeq(s, Len(s) - Len(e) + 1, Len(s)) = e

\* The name is a stem followed by the extension: not the extension alone,
\* and nothing after it.
HasExt(name, ext) ==
    /\ EndsWith(name, ext)
    /\ Len(name) > Len(ext)
    /\ \E i \in 1..(Len(name) - Len(ext)) : name[i] # "."

(* C7: save returns a path whose suffix is the canonical extension of the  *)
(* format asked for (.yaml; .md for markdown and md; .txt for text and     *)
(* txt; .json): a path with another extension is rewritten to it, a path   *)
(* that has it already is returned as it is, and the rendered content is   *)
(* written at exactly the path returned.                                   *)
C7_SaveCanonicalExtension ==
    (ret.op = "save" /\ ret.status = "ok") =>
        LET ext == CanonicalExt(ret.format)
            saved == ret.paths[1]
            rendered == IF impl = "core" THEN format_core(proc)
                        ELSE format_extras(proc, ret.format)
        IN  /\ Len(ret.paths) = 1
            /\ saved.parent = ret.path.parent
            /\ EndsWith(saved.name, ext)
            /\ HasExt(ret.path.name, ext) => saved = ret.path
            /\ ~HasExt(ret.path.name, ext) =>
                   /\ saved # ret.path
                   /\ saved.name = stem(ret.path.name) \o ext
            /\ saved \in DOMAIN fs /\ fs[saved] = rendered.content
            /\ \A path \in DOMAIN fs : path # saved =>
                   path \in DOMAIN ret.before /\ fs[path] = ret.before[path]

\* A yaml save to n.txt was written to n.yaml.
C7_Witness ==
    /\ ret.op = "save" /\ ret.status = "ok"
    /\ ret.format = "yaml"
    /\ ret.path = Path("out", <<"n", ".", "txt">>)
    /\ ret.paths = <<Path("out", <<"n", ".", "yaml">>)>>
    /\ fs[Path("out", <<"n", ".", "yaml">>)].formatter = "YAMLFormatter"

-----------------------------------------------------------------------------
\* The input is empty or whitespace only, and it has been processed: by
\* the controller, by the command line, or by a processor told to parse.
BlankProcessed == strip(raw) = <<>> /\ ret.op \in {"process_xml", "main", "parse"}

\* The empty-input failure, as the controller and the command line word it.
EmptyInputFailure ==
    \/ ret.status = "failure" /\ ret.msg = <<"Empty input">>
    \/ ret.status = "exit 1" /\ ret.msg = <<"Error: No XML content provided">>

(* C4: an input that is empty or whitespace only is rejected with the      *)
(* empty-input failure before the XML parser is invoked on it: no parse    *)
(* attempt, no status notification, no config write and no file write      *)
(* happens for it.                                                         *)
C4_BlankInputRejected ==
    BlankProcessed =>
        /\ EmptyInputFailure
        /\ log = <<>>
        /\ fs = NoFiles /\ dirs = {}
        /\ proc = NewProcessor

\* The same of the controller alone, which holds.
C4_Controller == ret.op = "process_xml" => C4_BlankInputRejected

\* Blank input never reaches a file or the config, by any way in.
C4_NothingWritten ==
    BlankProcessed =>
        /\ fs = NoFiles /\ dirs = {}
        /\ \A i \in 1..Len(log) : log[i] \notin {"status", "config.write", "write", "mkdir"}

-----------------------------------------------------------------------------
\* The one note of a field scenario is parsed: its record, and the text of
\* one of its fields as the decoder is handed it.
FieldParsed == pc = "parsed" /\ Len(ParsedNotes) = 1 /\ Len(doc) = 3
FieldText(tag) == ChildText(doc, 2, tag)

\* The pieces of the split of a text on "|", trimmed, the empty ones
\* dropped, in input order.
TrimmedPieces(text) ==
    LET cuts == {0, Len(text) + 1} \cup {i \in 1..Len(text) : text[i] = "|"}
        starts == InOrder({c \in cuts : c <= Len(text) /\
                               strip(SubSeq(text, c + 1,
                                   Min({e \in cuts : e > c}) - 1)) # <<>>})
    IN  [k \in 1..Len(starts) |->
            strip(SubSeq(text, starts[k] + 1, Min({e \in cuts : e > starts[k]}) - 1))]

(* C11: pipe_list, and mentions with it, returns the empty list whenever   *)
(* the field text carries the sentinel [NO_MENTIONS], also when the        *)
(* sentinel stands beside other pipe-separated pieces; otherwise pipe_list *)
(* returns the trimmed non-empty pieces of the split on "|" in input       *)
(* order.                                                                  *)
C11_SentinelForcesEmpty ==
    FieldParsed =>
        /\ Count(NOMENT, FieldText("tags")) > 0 => ParsedNotes[1].tags = <<>>
        /\ Count(NOMENT, FieldText("mentions")) > 0 => ParsedNotes[1].mentions = <<>>
        /\ Count(NOMENT, FieldText("tags")) = 0 =>
               ParsedNotes[1].tags = TrimmedPieces(FieldText("tags"))

\* What does hold: the sentinel alone empties the list, and a text without
\* the sentinel gives its trimmed pieces.
C11_ExactSentinel ==
    FieldParsed =>
        /\ FieldText("tags") = <<NOMENT>> => ParsedNotes[1].tags = <<>>
        /\ FieldText("mentions") = <<NOMENT>> => ParsedNotes[1].mentions = <<>>
        /\ Count(NOMENT, FieldText("tags")) = 0 =>
               ParsedNotes[1].tags = TrimmedPieces(FieldText("tags"))

(* C16: mentions returns, in input order, exactly one entry per non-empty  *)
(* trimmed pipe-separated piece, and every entry begins with @: a piece    *)
(* that starts with @ is kept as it is, any other piece gets one @ in      *)
(* front.  Stated of the texts that do not carry the sentinel             *)
(* [NO_MENTIONS], whose rule is C11's.                                     *)
MentionsOfPieces ==
    LET pieces == TrimmedPieces(FieldText("mentions"))
        mentions == ParsedNotes[1].mentions
    IN  /\ Len(mentions) = Len(pieces)
        /\ \A k \in 1..Len(pieces) :
               /\ mentions[k][1] = "@"
               /\ mentions[k] = IF pieces[k][1] = "@" THEN pieces[k]
                                ELSE <<"@">> \o pieces[k]

C16_MentionsCarryMarker ==
    (FieldParsed /\ Count(NOMENT, FieldText("mentions")) = 0) => MentionsOfPieces

\* The same of every text, as the sentence has it: the text [NO_MENTIONS] is
\* one non-empty piece and gives no entry.
C16_AsStated == FieldParsed => MentionsOfPieces

\* mentions("a|@b") = ["@a", "@b"]
C16_Witness ==
    /\ FieldParsed
    /\ FieldText("mentions") = <<"a", "|", "@", "b">>
    /\ ParsedNotes[1].mentions = <<<<"@", "a">>, <<"@", "b">>>>

\* The spans [[...]] of a text whose interior is not empty and holds no
\* bracket: where each starts and how long its interior is.
BracketFree(text, from, to) == \A i \in from..to : text[i] \notin {"[", "]"}
ValidSpans(text) ==
    {sp \in [start : 1..Len(text), len : 1..Len(text)] :
        /\ sp.start + sp.len + 3 <= Len(text)
        /\ text[sp.start] = "[" /\ text[sp.start + 1] = "["
        /\ BracketFree(text, sp.start + 2, sp.start + 1 + sp.len)
        /\ text[sp.start + 2 + sp.len] = "]" /\ text[sp.start + 3 + sp.len] = "]"}

\* Their trimmed interiors, in order of appearance.
SpanInteriors(text) ==
    LET starts == InOrder({sp.start : sp \in ValidSpans(text)})
    IN  [k \in 1..Len(starts) |->
            LET sp == CHOOSE x \in ValidSpans(text) : x.start = starts[k]
            IN  strip(SubSeq(text, sp.start + 2, sp.start + 1 + sp.len))]

(* C20: connections returns, in order of appearance, the trimmed interior  *)
(* of every non-overlapping [[...]] span whose interior holds no bracket   *)
(* character, ignores all text outside such spans, and returns the empty   *)
(* list when there is none.                                                *)
C20_ConnectionsBracketFree ==
    FieldParsed =>
        ParsedNotes[1].connections = SpanInteriors(FieldText("connections"))

\* The same of the texts all of whose brackets belong to such spans, which
\* holds.
C20_PlainSpans ==
    LET text == FieldText("connections")
    IN  (FieldParsed /\ Count("[", text) = 2 * Cardinality(ValidSpans(text))
                     /\ Count("]", text) = 2 * Cardinality(ValidSpans(text))) =>
            ParsedNotes[1].connections = SpanInteriors(text)

-----------------------------------------------------------------------------
\* A gap analysis has been parsed: the critical_gaps element of a gap
\* scenario and its <gap> children, in document order.
GapsParsed ==
    /\ pc = "parsed" /\ ActualMode = "gap_analysis"
    /\ Len(doc) >= 2 /\ doc[2].tag = "critical_gaps"
GapChildren == InOrder({j \in 3..Len(doc) : doc[j].tag = "gap" /\ ParentOf(doc, j) = 2})
ParsedGaps == proc.data.gap[1].gaps

(* C12: in gap-analysis mode the Gap list holds exactly one Gap per gap    *)
(* child of critical_gaps, in document order, whatever the layout of the   *)
(* element (gap children right after the opening tag included), except    *)
(* that it is empty when the critical_gaps text contains                   *)
(* [NONE_IDENTIFIED]; a gap without a type marker gets type "Unknown".     *)
C12_OneGapPerChild ==
    GapsParsed =>
        IF Count(NONE_IDENTIFIED, doc[2].text) > 0 THEN ParsedGaps = <<>>
        ELSE /\ Len(ParsedGaps) = Len(GapChildren)
             /\ \A k \in 1..Len(GapChildren) :
                    ParsedGaps[k].gap_type =
                        IF doc[GapChildren[k]].type = <<>> THEN <<"Unknown">>
                        ELSE doc[GapChildren[k]].type[1]

\* The same of the documents with some text before the first <gap>, which
\* holds.
C12_WithLeadingText == doc[2].text # <<>> => C12_OneGapPerChild

-----------------------------------------------------------------------------
\* process_xml has run with a status callback that raised.
ListenerRaised ==
    /\ pc = "done" /\ ret.op = "process_xml"
    /\ \E i \in 1..Len(log) : log[i] = "status raised"

\* The state the entry scenarios start the controller from.
ControllerStart(cfg) ==
    [parser |-> NoParser, proc |-> NewProcessor, fs |-> NoFiles, dirs |-> {},
     config |-> cfg, ret |-> NoCall, log |-> <<>>]

(* C13: a status listener that raises while being notified never aborts or *)
(* alters processing: the operation ends with the result, the notes, the   *)
(* files and the configuration it has with a listener that does not fail.  *)
C13_FailingListenerHarmless ==
    ListenerRaised =>
        \E meta \in Metas, output_dir \in {"", "out"}, split_notes \in BOOLEAN,
           cfg \in SavedConfigs :
            LET o == process_xml(raw, doc, ControllerStart(cfg), meta, output_dir,
                                 split_notes, "ok")
            IN  /\ o.ret = ret /\ o.fs = fs /\ o.dirs = dirs
                /\ o.proc = proc /\ o.parser = parser /\ o.config = config

\* The event dispatcher on its side calls every listener of the event,
\* raising or not, and raises nothing itself.
C13_DispatcherCallsAll ==
    \A listeners \in ListenerSeqs :
        /\ dispatch(listeners).invoked = [i \in 1..Len(listeners) |-> i]
        /\ ~dispatch(listeners).raised

-----------------------------------------------------------------------------
\* The notes as the parser built them from the document.
NotesAsParsed == parse_core(doc, NewParser(raw)).parser.notes

\* A note without what enrichment sets.
Unenriched(note) == [note EXCEPT !.author = None, !.reference = None, !.chapter = None]

(* C14: after any sequence of set_author_reference_chapter calls on a      *)
(* parsed batch all notes carry the same author, the same reference and    *)
(* the same chapter, and no other field of any note has changed.           *)
C14_EnrichmentUniform ==
    (impl = "core" /\ pc = "parsed") =>
        /\ \A j \in 1..Len(proc.notes), k \in 1..Len(proc.notes) :
               /\ proc.notes[j].author = proc.notes[k].author
               /\ proc.notes[j].reference = proc.notes[k].reference
               /\ proc.notes[j].chapter = proc.notes[k].chapter
        /\ Len(proc.notes) = Len(NotesAsParsed)
        /\ \A k \in 1..Len(proc.notes) : Unenriched(proc.notes[k]) = NotesAsParsed[k]
        /\ parser.notes = proc.notes

\* A batch of three notes after enrichment: every note with the author and
\* the chapter that were given, and no reference.
C14_Witness ==
    /\ pc = "parsed" /\ ret.op = "set_author_reference_chapter"
    /\ Len(proc.notes) = 3
    /\ \A k \in 1..3 : /\ proc.notes[k].author = <<"A">>
                       /\ proc.notes[k].reference = None
                       /\ proc.notes[k].chapter = <<"B">>

-----------------------------------------------------------------------------
\* The processor as construction and parse leave it on this input.
ProcAsParsed ==
    IF pc # "parsed" THEN NewProcessor
    ELSE IF impl = "core"
    THEN [NewProcessor EXCEPT !.notes = parse_core(doc, NewParser(raw)).parser.notes]
    ELSE LET r == parse_extras(doc, NewParser(raw)).parser
         IN  IF r.mode = "notes"
             THEN [NewProcessor EXCEPT !.data = DataNotes(r.notes), !.mode = "notes"]
             ELSE [NewProcessor EXCEPT !.data = DataGap(r.gap_analysis),
                                       !.mode = "gap_analysis"]

-----------------------------------------------------------------------------
\* The slug of the one title, as the saved table of contents has it.
SlugSaved == pc = "parsed" /\ TocPath \in DOMAIN fs /\ Len(fs[TocPath].anchors) = 1
Slug == fs[TocPath].anchors[1]

(* C17: slugify is idempotent, and a slug consists of lowercase word       *)
(* characters and hyphens only, with no whitespace and no underscore, and  *)
(* neither starts nor ends with a hyphen (slugify("Hello, World!") =       *)
(* "hello-world").                                                         *)
C17_SlugShape ==
    SlugSaved =>
        /\ _slugify(Slug) = Slug
        /\ \A i \in 1..Len(Slug) :
               /\ IsWordChar(Slug[i]) \/ Slug[i] = "-"
               /\ LowerChar(Slug[i]) = Slug[i]
               /\ ~IsSpace(Slug[i]) /\ Slug[i] # "_"
        /\ Slug # <<>> => Slug[1] # "-" /\ Slug[Len(Slug)] # "-"
        /\ ParsedNotes[1].title = HelloWorld =>
               Slug = <<"h", "e", "l", "l", "o", "-", "w", "o", "r", "l", "d">>

\* slugify("Hello, World!") = "hello-world" stands in a saved table of
\* contents.
C17_Witness ==
    /\ SlugSaved
    /\ ParsedNotes[1].title = HelloWorld
    /\ Slug = <<"h", "e", "l", "l", "o", "-", "w", "o", "r", "l", "d">>

-----------------------------------------------------------------------------
\* The decoded content of the one note, and the text it was decoded from.
ContentParsed == FieldParsed /\ doc[3].tag = "content"
Content == ParsedNotes[1].content

(* C18: the decoded content contains neither "[BREAK]" nor "[BULLET]",     *)
(* whether the tokens of the text stand side by side, inside one another   *)
(* or split by one another.                                                *)
C18_NoTokenLeft ==
    ContentParsed =>
        \A p \in 1..Len(Content) :
            ~OccursAt(Content, BREAK, p) /\ ~OccursAt(Content, BULLET, p)

\* "[BRE[BULLET]AK]": a bullet token splits a break token, and the halves
\* stay apart.
C18_Witness ==
    /\ ContentParsed
    /\ FieldText("content") = <<"[", "B", "R", "E">> \o BULLET \o <<"A", "K", "]">>
    /\ Content = <<"[", "B", "R", "E">> \o BulletMark \o <<"A", "K", "]">>

\* One pass over the text, left to right: a break token gives two newlines,
\* a bullet token with the one space after it, if there is one, gives the
\* bullet mark, and anything else stays.
RECURSIVE Decoded(_, _)
Decoded(text, p) ==
    IF p > Len(text) THEN <<>>
    ELSE IF OccursAt(text, BREAK, p) THEN <<NL, NL>> \o Decoded(text, p + Len(BREAK))
    ELSE IF OccursAt(text, BULLET, p)
    THEN BulletMark \o Decoded(text, p + Len(BULLET)
                                   + IF p + Len(BULLET) <= Len(text)
                                        /\ text[p + Len(BULLET)] = " " THEN 1 ELSE 0)
    ELSE <<text[p]>> \o Decoded(text, p + 1)

(* C19: content replaces [BREAK] by two newlines, then [BULLET], with or   *)
(* without exactly one space after it, by newline, bullet and space, then  *)
(* trims: "[BULLET] C" and "[BULLET]C" both give the line "* C", only one  *)
(* space is consumed, and content("A[BREAK]B[BULLET] C") is                *)
(* "A\n\nB\n* C".                                                          *)
C19_ContentDecoding ==
    ContentParsed =>
        LET text == strip(FieldText("content"))
        IN  /\ Content = strip(Decoded(text, 1))
            /\ text \in {BULLET \o <<" ", "C">>, BULLET \o <<"C">>} =>
                   Content = <<"*", " ", "C">>
            /\ text = BULLET \o <<" ", " ", "C">> => Content = <<"*", " ", " ", "C">>

\* content("A[BREAK]B[BULLET] C") = "A\n\nB\n* C"
C19_Witness ==
    /\ ContentParsed
    /\ FieldText("content") = <<"A">> \o BREAK \o <<"B">> \o BULLET \o <<" ", "C">>
    /\ Content = <<"A", NL, NL, "B", NL, "*", " ", "C">>

-----------------------------------------------------------------------------
\* One note has been split-saved into an empty directory: the name of its
\* file before the extension, and the slug of its title before the trim.
NameSaved ==
    /\ pc = "parsed" /\ ret.op = "save_individual" /\ ret.status = "ok"
    /\ Len(ret.paths) = 1 /\ Len(proc.notes) = 1
SavedName == ret.paths[1].name
SavedBase == SubSeq(SavedName, 1, Len(SavedName) - Len(MdExt))
UntrimmedSlug(title) == Hyphenate(StripSpecial(lower(title)))

(* C21: the split-save file name follows slugify: for a title whose slug   *)
(* is at most 80 characters it is slugify(title) + ".md"; for a longer     *)
(* slug it is the first 80 characters of the untrimmed slug without the    *)
(* hyphens at its ends, plus ".md"; the name before the extension is never *)
(* longer than 80 characters and never ends with a hyphen.                 *)
C21_FilenameFollowsSlug ==
    NameSaved =>
        LET title == proc.notes[1].title
            slug == _slugify(title)
        IN  /\ SavedName = SavedBase \o MdExt
            /\ IF Len(slug) <= FilenameLimit THEN SavedBase = slug
               ELSE SavedBase = StripHyphens(SubSeq(UntrimmedSlug(title), 1, FilenameLimit))
            /\ Len(SavedBase) <= FilenameLimit
            /\ SavedBase # <<>> => SavedBase[Len(SavedBase)] # "-"

\* The bounds of the name alone: at most 80 characters before ".md", no
\* hyphen at its end.  These hold.
C21_NameBounds ==
    NameSaved =>
        /\ SavedName = SavedBase \o MdExt
        /\ Len(SavedBase) <= FilenameLimit
        /\ SavedBase # <<>> => SavedBase[Len(SavedBase)] # "-"

-----------------------------------------------------------------------------
\* The text the parser keeps is the sanitized input.
Sanitized == pc = "constructed" /\ parser.xml_content = _clean_xml(raw)

(* C22: the Sanitizer is idempotent: applied to a text it has already      *)
(* sanitized it returns that text unchanged, for every input text.         *)
C22_SanitizerIdempotent ==
    Sanitized => _clean_xml(parser.xml_content) = parser.xml_content

\* The same of the sanitized texts in which no fence is left, which holds.
C22_FenceFreeUnchanged ==
    (Sanitized /\ Count(FENCE, parser.xml_content) = 0) =>
        _clean_xml(parser.xml_content) = parser.xml_content

-----------------------------------------------------------------------------
\* The last call was a save; log holds its effects in the order they
\* happened.
SaveCalled == ret.op \in {"save", "save_individual", "save_all"}
FormatAfterWrite ==
    \E i \in 1..Len(log), j \in 1..Len(log) :
        i < j /\ log[i] = "write" /\ log[j] = "format"

(* C23: in every save operation (save, save_individual, save_all) all      *)
(* rendering is complete before the first write of that operation: no      *)
(* formatter runs after a file of the same call has been written.          *)
C23_RenderBeforeWrite == SaveCalled => ~FormatAfterWrite

\* The same of save alone, which renders once and writes once.
C23_SingleSave == ret.op = "save" => ~FormatAfterWrite

-----------------------------------------------------------------------------
\* The last call was a save that failed because nothing was parsed or
\* because the format is unknown.
NoDataMessages ==
    {<<"No notes parsed. Call parse() first.">>, <<"No data parsed. Call parse() first.">>}
SaveRejected ==
    /\ SaveCalled /\ ret.status = "ValueError"
    /\ ret.msg \in NoDataMessages \/ (ret.msg # <<>> /\ ret.msg[1] = "Unknown format: ")
WroteOrMadeDir == \E i \in 1..Len(log) : log[i] \in {"mkdir", "write"}

(* C25: a save, save_individual or save_all call that fails because no     *)
(* data was parsed or because the format is unknown leaves the filesystem  *)
(* unchanged: it creates no directory and writes no file.                  *)
C25_RejectedSaveNoEffect == SaveRejected => (fs = ret.before /\ ~WroteOrMadeDir)

\* The same of save and save_individual, which render or test before they
\* touch the directory.
C25_SaveAndSplit == ret.op # "save_all" => C25_RejectedSaveNoEffect

-----------------------------------------------------------------------------
\* The k-th candidate path of a file name in the directory of the call: the
\* name itself, then the name numbered 1, 2, ...
Candidate(name, k) ==
    IF k = 0 THEN Path(ret.dir, name) ELSE Path(ret.dir, Numbered(name, k))

\* What is taken when the j-th note of the call is written: the files
\* there before the call and the paths of the notes before it.
TakenBefore(j) == DOMAIN ret.before \cup {ret.paths[i] : i \in 1..(j - 1)}

(* C27: repeated split-saves accumulate and never replace: in any sequence *)
(* of save_individual calls by a single writer each call adds exactly one  *)
(* new file per note, and each note goes to its base name if that is free, *)
(* otherwise to the name numbered with the smallest k >= 1 that is free at *)
(* that moment.                                                            *)
C27_SplitSavesAccumulate ==
    SplitDone =>
        /\ Len(ret.paths) = Len(proc.notes)
        /\ DOMAIN fs = DOMAIN ret.before \cup {ret.paths[j] : j \in 1..Len(ret.paths)}
        /\ Cardinality(DOMAIN fs) = Cardinality(DOMAIN ret.before) + Len(proc.notes)
        /\ \A path \in DOMAIN ret.before : fs[path] = ret.before[path]
        /\ \A j \in 1..Len(ret.paths) :
               /\ fs[ret.paths[j]] = format_single(proc.notes[j])
               /\ \E k \in 0..Cardinality(TakenBefore(j)) :
                      /\ ret.paths[j] = Candidate(get_filename(proc.notes[j]), k)
                      /\ ret.paths[j] \notin TakenBefore(j)
                      /\ \A m \in 0..(k - 1) :
                             Candidate(get_filename(proc.notes[j]), m) \in TakenBefore(j)

\* A second split-save of the same batch into the same directory: the file
\* of the first call is still there and the note goes to a numbered name.
C27_Witness ==
    /\ SplitDone
    /\ Len(ret.paths) >= 1
    /\ Path(ret.dir, get_filename(proc.notes[1])) \in DOMAIN ret.before
    /\ ret.before[Path(ret.dir, get_filename(proc.notes[1]))] = format_single(proc.notes[1])
    /\ \E k \in 1..MaxFiles : ret.paths[1] = Candidate(get_filename(proc.notes[1]), k)

-----------------------------------------------------------------------------
\* Nothing was given for a field: None or the empty string.
NotGiven(value) == value \in {None, <<>>}

(* C28: enrichment only ever sets values: a set_author_reference_chapter   *)
(* call that passes None or an empty string for author, reference or       *)
(* chapter leaves that field as it is on every note, so a value set by an  *)
(* earlier call is not cleared by a later one; and a fresh parse result    *)
(* has all three fields unset.                                             *)
C28_EnrichmentOnlySets ==
    [][/\ \A author \in EnrichValues, reference \in EnrichValues, chapter \in EnrichValues :
              SetAuthorReferenceChapter(author, reference, chapter) =>
                  /\ Len(proc'.notes) = Len(proc.notes)
                  /\ \A k \in 1..Len(proc.notes) :
                         /\ NotGiven(author) => proc'.notes[k].author = proc.notes[k].author
                         /\ NotGiven(reference) =>
                                proc'.notes[k].reference = proc.notes[k].reference
                         /\ NotGiven(chapter) => proc'.notes[k].chapter = proc.notes[k].chapter
                         /\ proc.notes[k].author # None => proc'.notes[k].author # None
                         /\ proc.notes[k].reference # None => proc'.notes[k].reference # None
                         /\ proc.notes[k].chapter # None => proc'.notes[k].chapter # None
       /\ (pc = "constructed" /\ pc' = "parsed") =>
              \A k \in 1..Len(proc'.notes) :
                  /\ proc'.notes[k].author = None
                  /\ proc'.notes[k].reference = None
                  /\ proc'.notes[k].chapter = None]_vars

\* Two notes that carry a reference and an author after enrichment, and no
\* chapter.
C28_Witness ==
    /\ pc = "parsed" /\ ret.op = "set_author_reference_chapter"
    /\ Len(proc.notes) = 2
    /\ \A k \in 1..2 : /\ proc.notes[k].author = <<"B">>
                       /\ proc.notes[k].reference = <<"A">>
                       /\ proc.notes[k].chapter = None

-----------------------------------------------------------------------------
(* Configuration scenarios: ConfigManager.save called over and over, from  *)
(* no configuration file, with every combination of empty and non-empty    *)
(* values.  write_text may fail with IOError, which save swallows: the     *)
(* file is then as it was.                                                 *)

ConfigValues == {<<>>, <<"A">>, <<"B">>}

\* ConfigManager.save(author, reference, chapter, output_dir)
ConfigSave(author, reference, chapter, output_dir) ==
    /\ \/ /\ config' = ConfigManager_save(config, author, reference, chapter, output_dir)
          /\ log' = <<"config.write">>
       \/ /\ config' = config
          /\ log' = <<"config.write", "IOError">>
    /\ ret' = Returned("ConfigManager.save")
    /\ UNCHANGED <<dispatcher, writers, impl, raw, doc, parser, proc, fs, dirs, pc>>

InitConfig ==
    /\ impl = "core"
    /\ Start(OfDoc(WrapperDoc))
    /\ fs = NoFiles
    /\ config = NoConfig

NextConfig ==
    \E author \in ConfigValues, reference \in ConfigValues, chapter \in ConfigValues,
       output_dir \in ConfigValues :
        ConfigSave(author, reference, chapter, output_dir)

SpecConfig == InitConfig /\ [][NextConfig]_vars

ConfigKeys == {"author", "reference", "chapter", "output_dir"}

\* The value a key holds after a save that passed `value` for it: the most
\* recent non-empty value passed.
MostRecent(before, value) == IF value # <<>> THEN value ELSE before

(* C29: after any sequence of ConfigManager.save calls whose writes        *)
(* succeed, load returns a record of the four keys author, reference,      *)
(* chapter and output_dir, each holding the most recent non-empty value    *)
(* passed for it, or the default (empty) when none was ever passed: with   *)
(* no file load returns the four defaults, and a successful save leaves    *)
(* each key at the value passed if that is not empty and at the value it   *)
(* had otherwise.                                                          *)
C29_ConfigKeepsLatest ==
    [][/\ DOMAIN load_config(config) = ConfigKeys
       /\ DOMAIN load_config(config') = ConfigKeys
       /\ config = NoConfig => \A key \in ConfigKeys : load_config(config)[key] = <<>>
       /\ \A author \in ConfigValues, reference \in ConfigValues, chapter \in ConfigValues,
             output_dir \in ConfigValues :
              (ConfigSave(author, reference, chapter, output_dir) /\ log' = <<"config.write">>) =>
                  LET old == load_config(config)
                      new == load_config(config')
                  IN  /\ new.author = MostRecent(old.author, author)
                      /\ new.reference = MostRecent(old.reference, reference)
                      /\ new.chapter = MostRecent(old.chapter, chapter)
                      /\ new.output_dir = MostRecent(old.output_dir, output_dir)]_vars

\* Saves have set three keys to different values and never the chapter.
C29_Witness ==
    /\ ret.op = "ConfigManager.save" /\ log = <<"config.write">>
    /\ load_config(config) =
           [author |-> <<"A">>, reference |-> <<"B">>, chapter |-> <<>>,
            output_dir |-> <<"A">>]

-----------------------------------------------------------------------------
(* Event scenarios: listeners of every kind are added and removed, and     *)
(* events of both types are dispatched to them, as long as the registry    *)
(* holds no more than MaxListeners registrations afterwards.               *)

InitEvents ==
    /\ impl = "core"
    /\ Start(OfDoc(WrapperDoc))
    /\ fs = NoFiles
    /\ config = NoConfig

NextEvents ==
    \/ \E event_type \in EventType, listener \in ListenerKinds :
           /\ Registrations(dispatcher._listeners) < MaxListeners
           /\ AddListener(event_type, listener)
    \/ \E event_type \in EventType, listener \in ListenerKinds :
           RemoveListener(event_type, listener)
    \/ \E event_type \in EventType :
           /\ Registrations(dispatcher._listeners)
                  + Len(SelectSeq(Registered(dispatcher._listeners, event_type),
                                  LAMBDA l : l = "adds_ok")) <= MaxListeners
           /\ DispatchEvent(event_type)
    \/ DispatchListener

SpecEvents == InitEvents /\ [][NextEvents]_vars

\* a is b with elements left out.
RECURSIVE IsSubsequence(_, _)
IsSubsequence(a, b) ==
    IF a = <<>> THEN TRUE
    ELSE IF b = <<>> THEN FALSE
    ELSE IF Head(a) = Head(b) THEN IsSubsequence(Tail(a), Tail(b))
    ELSE IsSubsequence(a, Tail(b))

DispatchDone == dispatcher.type # "" /\ ~dispatcher.active

(* C26: when a dispatch has ended, every listener that was registered for  *)
(* the event's type when it began has been called, once per registration   *)
(* and in registration order, also when listeners raised or added or       *)
(* removed listeners during the dispatch.                                  *)
C26_DispatchCallsRegistered ==
    DispatchDone => IsSubsequence(dispatcher.initial, dispatcher.called)

\* Among listeners that leave the registry alone, dispatch calls exactly the
\* registered ones in order, raising or not.
C26_QuietListeners ==
    (DispatchDone /\ \A k \in 1..Len(dispatcher.initial) :
                         dispatcher.initial[k] \in {"ok", "raises"})
        => dispatcher.called = dispatcher.initial

\* The list of a type, absent keys counting as no registrations.
Old(event_type) == Registered(dispatcher._listeners, event_type)
New(event_type) == Registered(dispatcher'._listeners, event_type)

(* C30: the registry holds, for each event type, its registrations in      *)
(* registration order: add_listener puts the listener at the end of the    *)
(* type's list; remove_listener takes out exactly the earliest             *)
(* registration of the listener for the type and changes nothing, without  *)
(* error, when the listener or the type is not registered; other types are *)
(* left alone; and no event type is ever mapped to an empty list.          *)
C30_RegistryInOrder ==
    [][/\ \A t \in DOMAIN dispatcher'._listeners : dispatcher'._listeners[t] # <<>>
       /\ \A event_type \in EventType, listener \in ListenerKinds :
              /\ AddListener(event_type, listener) =>
                     /\ New(event_type) = Append(Old(event_type), listener)
                     /\ \A t \in EventType \ {event_type} : New(t) = Old(t)
              /\ RemoveListener(event_type, listener) =>
                     /\ ret'.status = "ok"
                     /\ \A t \in EventType \ {event_type} : New(t) = Old(t)
                     /\ IF \E k \in 1..Len(Old(event_type)) : Old(event_type)[k] = listener
                        THEN \E k \in 1..Len(Old(event_type)) :
                                 /\ Old(event_type)[k] = listener
                                 /\ \A j \in 1..(k - 1) : Old(event_type)[j] # listener
                                 /\ Len(New(event_type)) = Len(Old(event_type)) - 1
                                 /\ \A j \in 1..Len(New(event_type)) :
                                        New(event_type)[j] =
                                            Old(event_type)[IF j < k THEN j ELSE j + 1]
                        ELSE dispatcher'._listeners = dispatcher._listeners]_vars

\* A removal has left one type with two listeners in their order of
\* registration, and the other type without a key.
C30_Witness ==
    /\ ret.op = "remove_listener"
    /\ DOMAIN dispatcher._listeners = {"STATUS_UPDATED"}
    /\ dispatcher._listeners["STATUS_UPDATED"] = <<"raises", "ok">>

-----------------------------------------------------------------------------
(* Concurrent split saves: one or two save_individual calls run on the     *)
(* parsed notes into the same directory, each at its own pace.  What one   *)
(* call shares with the other is the filesystem: file_path.exists() reads  *)
(* it and file_path.write_text() writes it, and these are separate steps.  *)

MaxRaceBatch == 2

RaceTitles == {<<"A", " ", "b">>, <<"a", "_", "b">>, <<"b">>}

RaceDir == "out"

\* A save_individual call that has not begun; pc is its position, i the
\* index of its note, before the files at its start.
IdleWriter ==
    [pc |-> "idle", i |-> 0, counter |-> 0, file_path |-> NoPath,
     original_path |-> NoPath, paths |-> <<>>, before |-> NoFiles]

\* output_dir / f"{stem}_{counter}{suffix}"
numbered_path(original_path, counter) ==
    Path(original_path.parent,
         stem(original_path.name) \o <<"_">> \o Digits(counter)
             \o suffix(original_path.name))

\* A loop test that would never find a file.
loop_test_blind(files, file_path) == FALSE

\* while file_path.exists()
loop_test(files, file_path) == exists(files, file_path)

\* The top of the for loop of save_individual at note i: the name is made
\* and the counter set, and the loop test comes next.
AtNote(writer, i) ==
    [writer EXCEPT !.pc = "check", !.i = i, !.counter = 1,
                   !.file_path = Path(RaceDir, get_filename(proc.notes[i])),
                   !.original_path = Path(RaceDir, get_filename(proc.notes[i]))]

\* save_individual is called: without notes it raises, else the directory
\* is made and the loop entered.
WriterBegin(w) ==
    /\ pc = "parsed"
    /\ writers[w].pc = "idle"
    /\ IF proc.notes = <<>>
       THEN /\ writers' = [writers EXCEPT ![w].pc = "raised"]
            /\ dirs' = dirs
       ELSE /\ writers' = [writers EXCEPT
                              ![w] = AtNote([writers[w] EXCEPT !.before = fs], 1)]
            /\ dirs' = dirs \cup {RaceDir}
    /\ UNCHANGED <<dispatcher, impl, raw, doc, parser, proc, fs, config, ret, log, pc>>

\* One test of the while loop: the candidate exists and the next numbered
\* name is made, or it does not and the loop is left.
WriterCheck(w) ==
    /\ writers[w].pc = "check"
    /\ writers' = [writers EXCEPT ![w] =
           IF loop_test(fs, writers[w].file_path)
           THEN [writers[w] EXCEPT
                    !.file_path = numbered_path(writers[w].original_path,
                                                writers[w].counter),
                    !.counter = @ + 1]
           ELSE [writers[w] EXCEPT !.pc = "write"]]
    /\ UNCHANGED <<dispatcher, impl, raw, doc, parser, proc, fs, dirs, config, ret, log, pc>>

\* file_path.write_text(content); saved_paths.append(file_path); then the
\* next note, or the end of the call.
WriterWrite(w) ==
    /\ writers[w].pc = "write"
    /\ fs' = write_text(fs, writers[w].file_path, format_single(proc.notes[writers[w].i]))
    /\ writers' = [writers EXCEPT ![w] =
           LET saved == [writers[w] EXCEPT !.paths = Append(@, writers[w].file_path)]
           IN  IF writers[w].i < Len(proc.notes) THEN AtNote(saved, writers[w].i + 1)
               ELSE [saved EXCEPT !.pc = "done"]]
    /\ UNCHANGED <<dispatcher, impl, raw, doc, parser, proc, dirs, config, ret, log, pc>>

InitRace ==
    /\ impl = "core"
    /\ \E n \in 0..MaxRaceBatch : \E titles \in [1..n -> RaceTitles] :
           Begin(OfDoc(TitledDoc(titles)))
    /\ \E S \in SUBSET {Path(RaceDir, <<"a", "-", "b", ".", "md">>)} :
           fs = [path \in S |-> Foreign]
    /\ config = NoConfig
    /\ dispatcher = NewDispatcher
    /\ writers \in {<<IdleWriter>>, <<IdleWriter, IdleWriter>>}

NextRace ==
    \/ Construct
    \/ ParseCore
    \/ \E w \in DOMAIN writers : WriterBegin(w)
    \/ \E w \in DOMAIN writers : WriterCheck(w)
    \/ \E w \in DOMAIN writers : WriterWrite(w)

SpecRace == InitRace /\ [][NextRace]_vars

\* The notes that writer w has written so far, by index.
Written(w) == 1..Len(writers[w].paths)

(* C24: with a single save_individual writer on a directory, the path a    *)
(* call has selected for writing never exists, no file that existed        *)
(* before the call is changed, the paths written are pairwise distinct,    *)
(* and every note written is in the file at its path: nothing is           *)
(* overwritten.  (With two writers the same candidate can be selected by   *)
(* both and one file overwrites the other: C24_Witness.)                   *)
C24_SingleWriterNeverOverwrites ==
    Len(writers) = 1 =>
        /\ writers[1].pc = "write" => ~exists(fs, writers[1].file_path)
        /\ \A path \in DOMAIN writers[1].before :
               exists(fs, path) /\ fs[path] = writers[1].before[path]
        /\ \A k \in Written(1) :
               /\ ~exists(writers[1].before, writers[1].paths[k])
               /\ exists(fs, writers[1].paths[k])
               /\ fs[writers[1].paths[k]] = format_single(proc.notes[k])
               /\ \A j \in Written(1) : j # k => writers[1].paths[j] # writers[1].paths[k]

\* Two writers have finished, and a note of one went to the path of a
\* different note of the other: one of the two files is lost.
C24_Witness ==
    /\ Len(writers) = 2
    /\ writers[1].pc = "done" /\ writers[2].pc = "done"
    /\ \E k \in Written(1), j \in Written(2) :
           /\ writers[1].paths[k] = writers[2].paths[j]
           /\ format_single(proc.notes[k]) # format_single(proc.notes[j])

=============================================================================
